---- MODULE Spec2Model ----
(***************************************************************************)
(* A model of the carcara proof elaborator: transitivity normalisation     *)
(* (elaborator/transitivity.rs), the memoised graph traversal              *)
(* (elaborator/mod.rs) and the binary-resolution expansion                  *)
(* (translation.rs).                                                       *)
(***************************************************************************)
EXTENDS Integers, Sequences, FiniteSets, TLC

VARIABLES
    trans_step,     \* the StepNode handed to `trans`
    trans_result,   \* what `trans` returned for it (NoResult before the call)
    bin_proof,      \* the commands handed to binarify_resolutions
    bin_pos,        \* how many of them its loop has consumed
    elab,           \* the Elaborator it drives
    bin_result,     \* apply_diff(binarify_resolutions(proof), proof), once done
    mut_graph,      \* the proof graph handed to `mutate`: node -> ProofNode
    mut_root,       \* its root
    mut_rewrite,    \* the mutate_func it is run with
    todo,           \* the work list of (node, is_done)
    cache,          \* node -> its mutated node
    did_outbound,   \* the subproofs whose outbound premises were pushed
    outbound_premises_stack,
    mut_calls,      \* node -> how many times mutate_func was handed it
    mut_rebuilt,    \* node -> the node handed to mutate_func for it
    mut_outcome,    \* running, or how the call ended
    se_inner,       \* the frames of the Elaborator a StepElaborator borrows
    se_active,      \* whether a StepElaborator is alive
    se_root_id,     \* its root_id
    se_stack,       \* its stack of frames of commands
    se_returned,    \* what its last call returned
    se_calls,       \* the calls of its map_index so far, with their results
    se_closed,      \* the subproofs its close_subproof returned so far
    pool_terms,     \* the entries of the TermPool: handle -> structural key
    pool_adds,      \* the calls of add so far: the term added and the handle returned
    pa_stack,       \* the parser's stack of command lists, one per open subproof
    pa_ids,         \* its stack of scopes: command id -> index
    pa_ends,        \* the step ids that close the open subproofs
    pa_count,       \* how many commands it has read
    lex_chars,      \* the characters the Lexer has not consumed, current_char first
    lex_results,    \* what the calls of next_token returned, in order
    lex_state,      \* whether next_token may be called again
    lex_checked,    \* whether the build checks integer arithmetic for overflow
    bm_config,      \* the arguments of run_benchmark and which instances fail to parse
    bm_queue,       \* jobs_queue, the next job to pop first
    bm_main,        \* where run_benchmark is after it filled the queue
    bm_workers,     \* per worker thread: where it is and the job it holds
    bm_ran,         \* per job, the workers that ran it, in order
    bm_measured,    \* per worker, the jobs its results hold a measurement of
    uc_step,        \* the resolution step given to uncrowd_resolution
    uc_pc,          \* where uncrowd_resolution is
    uc_naive,       \* naive_conclusion
    uc_crowding,    \* crowding_literals
    uc_events,      \* the events after the sort
    uc_found,       \* what find_needed_contractions returned
    uc_contractions,\* contractions, after the push
    uc_loop,        \* the locals of the loop over the cuts
    uc_blocks       \* the partial resolution steps added

transVars == <<trans_step, trans_result>>
binVars == <<bin_proof, bin_pos, elab, bin_result>>
mutVars ==
    <<mut_graph, mut_root, mut_rewrite, todo, cache, did_outbound,
      outbound_premises_stack, mut_calls, mut_rebuilt, mut_outcome>>
stepVars == <<se_inner, se_active, se_root_id, se_stack, se_returned, se_calls, se_closed>>
poolVars == <<pool_terms, pool_adds>>
parseVars == <<pa_stack, pa_ids, pa_ends, pa_count>>
lexVars == <<lex_chars, lex_results, lex_state, lex_checked>>
benchVars == <<bm_config, bm_queue, bm_main, bm_workers, bm_ran, bm_measured>>
uncrowdVars == <<uc_step, uc_pc, uc_naive, uc_crowding, uc_events, uc_found, uc_contractions, uc_loop, uc_blocks>>
vars ==
    <<transVars, binVars, mutVars, stepVars, poolVars, parseVars, lexVars, benchVars, uncrowdVars>>

\* What the actions of one part of the model leave alone.
notTransVars == <<binVars, mutVars, stepVars, poolVars, parseVars, lexVars, benchVars, uncrowdVars>>
notBinVars == <<transVars, mutVars, stepVars, poolVars, parseVars, lexVars, benchVars, uncrowdVars>>
notMutVars == <<transVars, binVars, stepVars, poolVars, parseVars, lexVars, benchVars, uncrowdVars>>
notStepVars == <<transVars, binVars, mutVars, poolVars, parseVars, lexVars, benchVars, uncrowdVars>>
notPoolVars == <<transVars, binVars, mutVars, stepVars, parseVars, lexVars, benchVars, uncrowdVars>>
notParseVars == <<transVars, binVars, mutVars, stepVars, poolVars, lexVars, benchVars, uncrowdVars>>
notLexVars == <<transVars, binVars, mutVars, stepVars, poolVars, parseVars, benchVars, uncrowdVars>>
notBenchVars == <<transVars, binVars, mutVars, stepVars, poolVars, parseVars, lexVars, uncrowdVars>>
notUncrowdVars == <<transVars, binVars, mutVars, stepVars, poolVars, parseVars, lexVars, benchVars>>

(***************************************************************************)
(* Bounds of the model.                                                    *)
(***************************************************************************)
NumTerms == 3
MaxPremises == 3
MaxResPremises == 4
\* StepElaborator: the deepest subproof of the borrowed Elaborator, the most
\* original commands one of its frames has met, the most commands a
\* StepElaborator is given, the deepest subproof it opens, and the most calls
\* of map_index that are recorded.
MaxInnerDepth == 1
MaxFrameCommands == 3
MaxAdded == 2
MaxStepDepth == 1
MaxClosed == 1
MaxCalls == 2
\* The most calls of TermPool::add.
MaxAdds == 3
\* The most proof commands the parser reads and the deepest subproof.
MaxParseCommands == 6
MaxParseDepth == 2
\* The longest input of the lexer, in characters.
MaxInputLen == 4
MaxIntPartLen == 2
MaxExactDigits == 7
MinLongFracLen == 19
MaxFracLen == 22
\* The most instances, runs of each instance and worker threads of a benchmark.
MaxInstances == 2
MaxRuns == 2
MaxThreads == 2

(***************************************************************************)
(* Terms.  A term is a tuple headed by its constructor, compared           *)
(* structurally (hash-consed handles compare as their structure).          *)
(***************************************************************************)
Var(k) == <<"v", k>>
Eq(a, b) == <<"=", a, b>>
Not(t) == <<"not", t>>

Atoms == {Var(k) : k \in 1..NumTerms}

\* match_term!((= t u) = term): the two arguments of an equality, or None.
MatchEq(term) ==
    IF term[1] = "=" /\ Len(term) = 3
    THEN [some |-> TRUE, t |-> term[2], u |-> term[3]]
    ELSE [some |-> FALSE]

(***************************************************************************)
(* Proof nodes (graph form).  Ids are strings; format!("{}.symm", id) is    *)
(* string concatenation.                                                   *)
(***************************************************************************)
NoNode == <<>>

StepNode(id, depth, clause, rule, premises, args, discharge, previous_step) ==
    [kind |-> "step", id |-> id, depth |-> depth, clause |-> clause,
     rule |-> rule, premises |-> premises, args |-> args,
     discharge |-> discharge, previous_step |-> previous_step]

AssumeNode(id, depth, term) ==
    [kind |-> "assume", id |-> id, depth |-> depth, term |-> term]

SubproofNode(last_step, args, outbound_premises) ==
    [kind |-> "subproof", last_step |-> last_step, args |-> args,
     outbound_premises |-> outbound_premises]

\* ProofNode::id
RECURSIVE NodeId(_)
NodeId(node) ==
    IF node.kind = "subproof" THEN NodeId(node.last_step) ELSE node.id

\* ProofNode::clause
RECURSIVE NodeClause(_)
NodeClause(node) ==
    IF node.kind = "assume" THEN <<node.term>>
    ELSE IF node.kind = "step" THEN node.clause
    ELSE NodeClause(node.last_step)

\* ProofNode::depth: a subproof lies one level above its steps.
RECURSIVE NodeDepth(_)
NodeDepth(node) ==
    IF node.kind = "subproof" THEN NodeDepth(node.last_step) - 1
    ELSE node.depth

\* A premise-free step concluding the unit clause (= a b).
Leaf(k, a, b) ==
    StepNode("p" \o ToString(k), 0, <<Eq(a, b)>>, "hole", <<>>, <<>>, <<>>, NoNode)

IdDot(id, component) == id \o "." \o component

\* add_symm_step with the equality copied instead of flipped.
add_symm_step_unflipped(node) ==
    LET m == MatchEq(NodeClause(node)[1])
    IN StepNode(IdDot(NodeId(node), "symm"), NodeDepth(node), <<Eq(m.t, m.u)>>, "symm",
                <<node>>, <<>>, <<>>, NoNode)

add_symm_step(node) ==
    LET m == MatchEq(NodeClause(node)[1])
    IN StepNode(IdDot(NodeId(node), "symm"), NodeDepth(node), <<Eq(m.u, m.t)>>, "symm",
                <<node>>, <<>>, <<>>, NoNode)

(***************************************************************************)
(* find_and_trace_chain.  Indices are kept 0-based as in the source;       *)
(* position i of a slice is element i + 1 of the sequence.                 *)
(***************************************************************************)
Swap(s, i, j) == [s EXCEPT ![i + 1] = s[j + 1], ![j + 1] = s[i + 1]]

\* The positions j >= i whose equality has `c` on either side.
Matches(eqs, i, c) ==
    {j \in i..(Len(eqs) - 1) : eqs[j + 1][1] = c \/ eqs[j + 1][2] = c}

Min(S) == CHOOSE x \in S : \A y \in S : x <= y

\* The search taking the last match of the slice.
FindLinkRightmost(eqs, i, c) ==
    CHOOSE x \in Matches(eqs, i, c) : \A y \in Matches(eqs, i, c) : x >= y

\* premise_equalities[i..].iter().enumerate().find_map(..): the first match.
FindLink(eqs, i, c) == Min(Matches(eqs, i, c))

\* The index pushed on should_flip when the link found at found_index is used
\* right to left: the closure pushes i, the position the link is swapped to.
FlipIndex(i, found_index) == i

\* premises.swap(i, found_index) left out.
SwapPremisesForgotten(prems, i, found_index) == prems

\* premises.swap(i, found_index)
SwapPremises(prems, i, found_index) == Swap(prems, i, found_index)

RECURSIVE TraceLoop(_, _, _, _, _, _)
TraceLoop(conclusion, eqs, prems, i, should_flip, reordered) ==
    IF conclusion[1] = conclusion[2]
    THEN [ok |-> TRUE, reordered |-> reordered, num_needed |-> i,
          should_flip |-> should_flip, premises |-> prems]
    ELSE IF Matches(eqs, i, conclusion[1]) = {}
    THEN [ok |-> FALSE,
          err |-> <<"BrokenTransitivityChain", conclusion[1], conclusion[2]>>]
    ELSE LET found_index == FindLink(eqs, i, conclusion[1])
             e == eqs[found_index + 1]
             forward == e[1] = conclusion[1]
             next_link == IF forward THEN e[2] ELSE e[1]
             flips == IF forward THEN should_flip
                      ELSE Append(should_flip, FlipIndex(i, found_index))
             moved == found_index # i
         IN TraceLoop(<<next_link, conclusion[2]>>,
                      IF moved THEN Swap(eqs, i, found_index) ELSE eqs,
                      IF moved THEN SwapPremises(prems, i, found_index) ELSE prems,
                      i + 1, flips, reordered \/ moved)

find_and_trace_chain(conclusion, premise_equalities, premises) ==
    TraceLoop(conclusion, premise_equalities, premises, 0, <<>>, FALSE)

(***************************************************************************)
(* trans                                                                   *)
(***************************************************************************)
RECURSIVE ApplyFlips(_, _)
ApplyFlips(prems, should_flip) ==
    IF should_flip = <<>> THEN prems
    ELSE LET i == Head(should_flip)
         IN ApplyFlips([prems EXCEPT ![i + 1] = add_symm_step(prems[i + 1])],
                       Tail(should_flip))

\* new_premises.truncate(num_needed) left out.
TruncateForgotten(s, n) == s

\* Vec::truncate
Truncate(s, n) == IF n < Len(s) THEN SubSeq(s, 1, n) ELSE s

NoResult == [kind |-> "none"]
OkResult(node) == [kind |-> "ok", node |-> node]
ErrResult(e) == [kind |-> "err", err |-> e]

trans(step) ==
    LET c == MatchEq(step.clause[1])
        ms == [k \in 1..Len(step.premises) |->
                 MatchEq(NodeClause(step.premises[k])[1])]
    IN IF ~c.some THEN ErrResult(<<"TermOfWrongForm", step.clause[1]>>)
       ELSE IF \E k \in 1..Len(ms) : ~ms[k].some
       THEN LET k == Min({x \in 1..Len(ms) : ~ms[x].some})
            IN ErrResult(<<"TermOfWrongForm", NodeClause(step.premises[k])[1]>>)
       ELSE LET eqs == [k \in 1..Len(ms) |-> <<ms[k].t, ms[k].u>>]
                r == find_and_trace_chain(<<c.t, c.u>>, eqs, step.premises)
            IN IF ~r.ok THEN ErrResult(r.err)
               ELSE OkResult([step EXCEPT !.premises =
                        ApplyFlips(Truncate(r.premises, r.num_needed),
                                   r.should_flip)])

(***************************************************************************)
(* The specification of `trans` on its own: a step is drawn, `trans` runs. *)
(***************************************************************************)
RECURSIVE SeqsUpTo(_, _)
SeqsUpTo(S, n) ==
    IF n = 0 THEN {<<>>}
    ELSE LET R == SeqsUpTo(S, n - 1)
         IN R \cup {Append(s, x) : s \in {r \in R : Len(r) = n - 1}, x \in S}

EqPairs == Atoms \X Atoms

\* The conclusions (= t u) up to renaming of the terms: t and u are the same
\* term or two different ones.
TransConclusions == {<<Var(1), Var(1)>>, <<Var(1), Var(2)>>}

TransSteps ==
    {StepNode("t", 0, <<Eq(c[1], c[2])>>, "trans",
              [k \in 1..Len(ps) |-> Leaf(k, ps[k][1], ps[k][2])],
              <<>>, <<>>, NoNode) :
        c \in TransConclusions, ps \in SeqsUpTo(EqPairs, MaxPremises)}

TransCall ==
    /\ trans_result = NoResult
    /\ trans_result' = trans(trans_step)
    /\ UNCHANGED trans_step
    /\ UNCHANGED notTransVars

(***************************************************************************)
(* Linear proofs: a command is a step whose premises are (depth, index)    *)
(* pairs, 0-based, into the commands before it.                            *)
(***************************************************************************)
ProofStep(id, clause, rule, premises, args, discharge) ==
    [kind |-> "step", id |-> id, clause |-> clause, rule |-> rule,
     premises |-> premises, args |-> args, discharge |-> discharge]

bool_constant(b) == IF b THEN <<"true">> ELSE <<"false">>
is_bool_true(t) == t = <<"true">>

Contains(s, x) == \E k \in 1..Len(s) : s[k] = x

Reverse(s) == [k \in 1..Len(s) |-> s[Len(s) + 1 - k]]

RECURSIVE Dedup(_)
Dedup(s) ==
    IF s = <<>> THEN <<>>
    ELSE LET r == Dedup(SubSeq(s, 1, Len(s) - 1))
         IN IF Contains(r, s[Len(s)]) THEN r ELSE Append(r, s[Len(s)])

\* current_clause.remove(current_clause.iter().position(|x| *x == pivot).unwrap())
RemoveFirst(s, x) ==
    LET p == Min({k \in 1..Len(s) : s[k] = x})
    IN SubSeq(s, 1, p - 1) \o SubSeq(s, p + 1, Len(s))

\* for t in next_clause { if !found && *t == pivot_in_next {..} else {push} }
RECURSIVE PushAllButFirst(_, _, _, _)
PushAllButFirst(current, next, x, found) ==
    IF next = <<>> THEN current
    ELSE IF ~found /\ Head(next) = x
    THEN PushAllButFirst(current, Tail(next), x, TRUE)
    ELSE PushAllButFirst(Append(current, Head(next)), Tail(next), x, found)

\* One binary resolution of `current` with `next` on `pivot`.
Resolve(current, next, pivot, is_pivot_in_left) ==
    LET negated_pivot == Not(pivot)
        pivot_in_current == IF is_pivot_in_left THEN pivot ELSE negated_pivot
        pivot_in_next == IF is_pivot_in_left THEN negated_pivot ELSE pivot
    IN PushAllButFirst(RemoveFirst(current, pivot_in_current), next,
                       pivot_in_next, FALSE)

(***************************************************************************)
(* The Elaborator that binarify_resolutions drives (one frame: the model's *)
(* proofs have no subproofs).  new_indices[i + 1] is where original        *)
(* command i lies in the emitted proof.                                    *)
(***************************************************************************)
NewElaborator ==
    [new_indices |-> <<>>, diff |-> <<>>, accumulator |-> <<>>,
     current_offset |-> 0]

\* The index the next emitted command takes.
ElabNextIndex(e) == Len(e.new_indices) + e.current_offset

ElabGetNewId(e, root_id) ==
    root_id \o ".t" \o ToString(Len(e.accumulator) + 1)

ElabMapIndex(e, p) == e.new_indices[p[2] + 1]

ElabAddNewStep(e, step) ==
    [elab |-> [e EXCEPT !.accumulator = Append(@, step)],
     index |-> <<0, ElabNextIndex(e) + Len(e.accumulator)>>]

ElabPushElaboratedStep(e, step) ==
    LET added == Append(e.accumulator, step)
    IN [e EXCEPT !.diff = Append(@, [index |-> Len(e.new_indices),
                                     commands |-> added]),
                 !.new_indices = Append(@, <<0, ElabNextIndex(e) + Len(added) - 1>>),
                 !.current_offset = @ + Len(added) - 1,
                 !.accumulator = <<>>]

ElabUnchanged(e) ==
    [e EXCEPT !.new_indices = Append(@, <<0, ElabNextIndex(e)>>)]

\* apply_diff leaving each elaborated command in front of its replacement.
RECURSIVE ApplyDiffKeeping(_, _, _)
ApplyDiffKeeping(diff, commands, i) ==
    IF i = Len(commands) THEN <<>>
    ELSE LET hits == {k \in 1..Len(diff) : diff[k].index = i}
         IN (IF hits = {} THEN <<commands[i + 1]>>
             ELSE <<commands[i + 1]>> \o diff[Min(hits)].commands)
            \o ApplyDiffKeeping(diff, commands, i + 1)

\* apply_diff: each elaborated command is replaced by its commands.
RECURSIVE ApplyDiff(_, _, _)
ApplyDiff(diff, commands, i) ==
    IF i = Len(commands) THEN <<>>
    ELSE LET hits == {k \in 1..Len(diff) : diff[k].index = i}
         IN (IF hits = {} THEN <<commands[i + 1]>>
             ELSE diff[Min(hits)].commands)
            \o ApplyDiff(diff, commands, i + 1)

(***************************************************************************)
(* binarify_single_resolution                                              *)
(***************************************************************************)
\* let mut previous_premise = step.premises[0];
FirstPremise(e, step) == step.premises[1]

\* The id of the last step emitted kept as get_new_id gave it.
FinalIdKept(new_id, root_id) == new_id

\* step.id = root_id.clone();
FinalId(new_id, root_id) == root_id

\* The clause of an emitted step with its repeated literals dropped.
EmittedClauseDeduplicated(current_clause) == Dedup(current_clause)

\* clause: current_clause.clone()
EmittedClause(current_clause) == current_clause

RECURSIVE BinarifyLoop(_, _, _, _, _, _)
BinarifyLoop(e, step, premise_clauses, i, current_clause, previous_premise) ==
    LET p == step.premises[i + 2]
        pivot == step.args[2 * i + 1]
        is_pivot_in_left == is_bool_true(step.args[2 * i + 2])
        clause == Resolve(current_clause, premise_clauses[i + 2], pivot,
                          is_pivot_in_left)
        new_id == ElabGetNewId(e, step.id)
        new == ProofStep(new_id, EmittedClause(clause), "resolution",
                         <<previous_premise, ElabMapIndex(e, p)>>,
                         <<pivot, bool_constant(is_pivot_in_left)>>, <<>>)
    IN IF i + 2 = Len(premise_clauses)
       THEN ElabPushElaboratedStep(e, [new EXCEPT !.id = FinalId(new_id, step.id)])
       ELSE LET r == ElabAddNewStep(e, new)
            IN BinarifyLoop(r.elab, step, premise_clauses, i + 1, clause, r.index)

binarify_single_resolution(e, step, premise_clauses) ==
    BinarifyLoop(e, step, premise_clauses, 0, premise_clauses[1],
                 FirstPremise(e, step))

(***************************************************************************)
(* binarify_resolutions, one command of the proof per step.                *)
(***************************************************************************)
\* iter.get_premise(p).clause()
GetPremiseClause(proof, p) == proof[p[2] + 1].clause

BinCommand == bin_proof[bin_pos + 1]
BinRunning == bin_result = <<>> /\ bin_pos < Len(bin_proof)

BinExpand ==
    /\ BinRunning
    /\ BinCommand.rule = "resolution" /\ Len(BinCommand.premises) > 2
    /\ elab' = binarify_single_resolution(elab, BinCommand,
                 [k \in 1..Len(BinCommand.premises) |->
                     GetPremiseClause(bin_proof, BinCommand.premises[k])])
    /\ bin_pos' = bin_pos + 1
    /\ UNCHANGED <<bin_proof, bin_result>>
    /\ UNCHANGED notBinVars

BinUnchanged ==
    /\ BinRunning
    /\ ~(BinCommand.rule = "resolution" /\ Len(BinCommand.premises) > 2)
    /\ elab' = ElabUnchanged(elab)
    /\ bin_pos' = bin_pos + 1
    /\ UNCHANGED <<bin_proof, bin_result>>
    /\ UNCHANGED notBinVars

BinApplyDiff ==
    /\ bin_result = <<>> /\ bin_pos = Len(bin_proof)
    /\ bin_result' = ApplyDiff(elab.diff, bin_proof, 0)
    /\ UNCHANGED <<bin_proof, bin_pos, elab>>
    /\ UNCHANGED notBinVars

\* ProofCommand::Step(s) if s.rule == "resolution" && s.premises.len() > 2
NeedsBinarify(command) ==
    command.rule = "resolution" /\ Len(command.premises) > 2

\* binarify_resolutions as a function of the proof: the diff that the loop
\* has built when it has met every command from position pos on.
RECURSIVE binarify_resolutions(_, _, _)
binarify_resolutions(e, proof, pos) ==
    IF pos = Len(proof) THEN e.diff
    ELSE LET command == proof[pos + 1]
         IN binarify_resolutions(
                IF NeedsBinarify(command)
                THEN binarify_single_resolution(e, command,
                         [k \in 1..Len(command.premises) |->
                             GetPremiseClause(proof, command.premises[k])])
                ELSE ElabUnchanged(e),
                proof, pos + 1)

\* One application of binarify_resolutions and of its diff.
Binarified(proof) ==
    ApplyDiff(binarify_resolutions(NewElaborator, proof, 0), proof, 0)

(***************************************************************************)
(* The proofs binarify_resolutions is run on: premise-free steps followed  *)
(* by one or two resolution steps over the commands before them.           *)
(***************************************************************************)
LitA == Var(1)
LitB == Var(2)
LitC == Var(3)

BinLeaves ==
    <<ProofStep("t1", <<LitA, LitB>>, "hole", <<>>, <<>>, <<>>),
      ProofStep("t2", <<Not(LitA), LitB>>, "hole", <<>>, <<>>, <<>>),
      ProofStep("t3", <<Not(LitA), LitC>>, "hole", <<>>, <<>>, <<>>),
      ProofStep("t4", <<Not(LitC), LitB>>, "hole", <<>>, <<>>, <<>>),
      ProofStep("t5", <<Not(LitB)>>, "hole", <<>>, <<>>, <<>>)>>

\* The ways to resolve a chain once more: a premise and a pivot that occurs
\* in the accumulator with one polarity and in the premise with the other.
ExtendChain(cmds, c) ==
    {[premises |-> Append(c.premises, <<0, k - 1>>),
      args |-> c.args \o <<pv, bool_constant(left)>>,
      clause |-> Resolve(c.clause, cmds[k].clause, pv, left)] :
        <<k, pv, left>> \in
            {x \in (1..Len(cmds)) \X {LitA, LitB, LitC} \X BOOLEAN :
                /\ Contains(c.clause, IF x[3] THEN x[2] ELSE Not(x[2]))
                /\ Contains(cmds[x[1]].clause, IF x[3] THEN Not(x[2]) ELSE x[2])}}

RECURSIVE Chains(_, _)
Chains(cmds, n) ==
    IF n = 1
    THEN {[premises |-> <<<<0, k - 1>>>>, args |-> <<>>, clause |-> cmds[k].clause] :
            k \in 1..Len(cmds)}
    ELSE UNION {ExtendChain(cmds, c) : c \in Chains(cmds, n - 1)}

\* The clauses a resolution step may conclude: the resolvent as a list, in
\* either order, with or without its repeated literals.
Conclusions(naive) == {naive, Reverse(naive), Dedup(naive)}

ResolutionSteps(cmds, id) ==
    {ProofStep(id, cl, "resolution", c.premises, c.args, <<>>) :
        <<c, cl>> \in
            {x \in (UNION {Chains(cmds, n) : n \in 3..MaxResPremises})
                     \X (UNION {Conclusions(c.clause) :
                                c \in UNION {Chains(cmds, n) : n \in 3..MaxResPremises}}) :
                x[2] \in Conclusions(x[1].clause)}}

BinProofs ==
    LET one == {Append(BinLeaves, r) : r \in ResolutionSteps(BinLeaves, "t6")}
    IN one \cup UNION {{Append(p, r) : r \in ResolutionSteps(p, "t7")} : p \in one}

(***************************************************************************)
(* mutate.  The nodes of the input graph are named by numbers and hold the *)
(* names of the nodes they refer to; mutated nodes are values.  Ids are    *)
(* unique, so the keys of cache and did_outbound, which hash and compare   *)
(* nodes by structure, tell the input nodes apart as their names do.       *)
(***************************************************************************)
\* The input node n as a value.
RECURSIVE Val(_, _)
Val(G, n) ==
    LET g == G[n]
    IN IF g.kind = "assume" THEN g
       ELSE IF g.kind = "step"
       THEN [g EXCEPT
               !.premises = [k \in 1..Len(g.premises) |-> Val(G, g.premises[k])],
               !.discharge = [k \in 1..Len(g.discharge) |-> Val(G, g.discharge[k])],
               !.previous_step =
                   [k \in 1..Len(g.previous_step) |-> Val(G, g.previous_step[k])]]
       ELSE [g EXCEPT
               !.last_step = Val(G, g.last_step),
               !.outbound_premises =
                   [k \in 1..Len(g.outbound_premises) |->
                       Val(G, g.outbound_premises[k])]]

Shallower(nodes, depth) == SelectSeq(nodes, LAMBDA q : NodeDepth(q) < depth)

\* ProofNode::get_outbound_premises: the premises a node uses that lie at a
\* strictly shallower depth than the node.
GetOutboundPremises(node) ==
    IF node.kind = "assume" THEN <<>>
    ELSE IF node.kind = "step"
    THEN Shallower(node.premises \o node.discharge \o node.previous_step,
                   node.depth)
    ELSE Shallower(node.outbound_premises, NodeDepth(node))

\* IndexSet::extend: insertion order, no element twice.
RECURSIVE IndexSetExtend(_, _)
IndexSetExtend(set, items) ==
    IF items = <<>> THEN set
    ELSE IndexSetExtend(IF Contains(set, Head(items)) THEN set
                        ELSE Append(set, Head(items)),
                        Tail(items))

\* The rewrites `mutate` is run with: the closure of `elaborate`, and the
\* rewrite that returns every node as it is.
MutateFunc(rewrite, node) ==
    IF rewrite = "elaborate" /\ node.kind = "step" /\ node.rule = "trans"
    THEN trans(node)
    ELSE OkResult(node)

\* The check that opens the loop body, never finding anything.
AlreadyCachedNever(c, n) == FALSE

\* if cache.contains_key(node) { continue; }
AlreadyCached(c, n) == n \in DOMAIN c

\* The rebuilt step with its previous_step lost.
RebuildStepNoPrevious(s, c) ==
    [s EXCEPT !.premises = [k \in 1..Len(s.premises) |-> c[s.premises[k]]],
              !.discharge = [k \in 1..Len(s.discharge) |-> c[s.discharge[k]]],
              !.previous_step = <<>>]

\* The rebuilt step with its premises in the opposite order.
RebuildStepReversed(s, c) ==
    [s EXCEPT !.premises = [k \in 1..Len(s.premises) |->
                               c[s.premises[Len(s.premises) + 1 - k]]],
              !.discharge = [k \in 1..Len(s.discharge) |-> c[s.discharge[k]]],
              !.previous_step =
                  [k \in 1..Len(s.previous_step) |-> c[s.previous_step[k]]]]

\* StepNode { premises, discharge, previous_step, ..s.clone() }
RebuildStep(s, c) ==
    [s EXCEPT !.premises = [k \in 1..Len(s.premises) |-> c[s.premises[k]]],
              !.discharge = [k \in 1..Len(s.discharge) |-> c[s.discharge[k]]],
              !.previous_step =
                  [k \in 1..Len(s.previous_step) |-> c[s.previous_step[k]]]]

Running == [kind |-> "running", value |-> <<>>]
MutReturned(node) == [kind |-> "returned", value |-> node]
Panicked(what) == [kind |-> "panicked", value |-> what]

MutNode == todo[Len(todo)][1]
MutIsDone == todo[Len(todo)][2]
MutPopped == SubSeq(todo, 1, Len(todo) - 1)
MutLoop == mut_outcome = Running /\ todo # <<>>
MutFresh == MutLoop /\ ~AlreadyCached(cache, MutNode)
MutInput == mut_graph[MutNode]
\* node.depth() == outbound_premises_stack.len() - 1
MutDepthAsserted ==
    NodeDepth(Val(mut_graph, MutNode)) = Len(outbound_premises_stack) - 1

\* The end of the loop body: the outbound premises of the mutated node join
\* the top frame, and the node enters the cache.
MutInsert(stack, mutated) ==
    /\ outbound_premises_stack' =
         [stack EXCEPT ![Len(stack)] =
             IndexSetExtend(@, GetOutboundPremises(mutated))]
    /\ cache' = (MutNode :> mutated) @@ cache
    /\ todo' = MutPopped
    /\ mut_outcome' = Running

\* mutate_func(pool, handed), whose failure `elaborate` unwraps.
MutRewrite(handed) ==
    \E r \in {MutateFunc(mut_rewrite, handed)} :
       /\ mut_calls' = [mut_calls EXCEPT ![MutNode] = @ + 1]
       /\ mut_rebuilt' = (MutNode :> handed) @@ mut_rebuilt
       /\ IF r.kind = "ok"
          THEN MutInsert(outbound_premises_stack, r.node)
          ELSE /\ mut_outcome' = Panicked(r.err)
               /\ todo' = MutPopped
               /\ UNCHANGED <<cache, outbound_premises_stack>>

\* The entry pushed with its flag not set.
RevisitNotDone(node) == <<node, FALSE>>

\* todo.push((node, true))
Revisit(node) == <<node, TRUE>>

MutSkip ==
    /\ MutLoop
    /\ AlreadyCached(cache, MutNode)
    /\ todo' = MutPopped
    /\ UNCHANGED <<mut_graph, mut_root, mut_rewrite, cache, did_outbound,
                   outbound_premises_stack, mut_calls, mut_rebuilt, mut_outcome>>
    /\ UNCHANGED notMutVars

MutAssume ==
    /\ MutFresh
    /\ MutInput.kind = "assume"
    /\ MutRewrite(Val(mut_graph, MutNode))
    /\ UNCHANGED <<mut_graph, mut_root, mut_rewrite, did_outbound>>
    /\ UNCHANGED notMutVars

MutStepExpand ==
    /\ MutFresh
    /\ MutInput.kind = "step" /\ ~MutIsDone
    /\ LET all_premises ==
               MutInput.premises \o MutInput.discharge \o MutInput.previous_step
           pending == SelectSeq(Reverse(all_premises),
                                LAMBDA q : ~AlreadyCached(cache, q))
       IN todo' = Append(MutPopped, Revisit(MutNode))
                    \o [k \in 1..Len(pending) |-> <<pending[k], FALSE>>]
    /\ UNCHANGED <<mut_graph, mut_root, mut_rewrite, cache, did_outbound,
                   outbound_premises_stack, mut_calls, mut_rebuilt, mut_outcome>>
    /\ UNCHANGED notMutVars

MutStepRebuild ==
    /\ MutFresh
    /\ MutInput.kind = "step" /\ MutIsDone
    /\ MutRewrite(RebuildStep(MutInput, cache))
    /\ UNCHANGED <<mut_graph, mut_root, mut_rewrite, did_outbound>>
    /\ UNCHANGED notMutVars

\* The pass over the outbound premises left out.
OutboundTodoNone(subproof) == <<>>

\* s.outbound_premises.iter().map(|premise| (premise, false))
OutboundTodo(subproof) ==
    [k \in 1..Len(subproof.outbound_premises) |->
        <<subproof.outbound_premises[k], FALSE>>]

MutSubproofOutbound ==
    /\ MutFresh
    /\ MutInput.kind = "subproof" /\ ~MutIsDone
    /\ MutNode \notin did_outbound
    /\ IF MutDepthAsserted
       THEN /\ did_outbound' = did_outbound \cup {MutNode}
            /\ todo' = todo \o OutboundTodo(MutInput)
            /\ UNCHANGED mut_outcome
       ELSE /\ mut_outcome' = Panicked(<<"assert", "outbound premises">>)
            /\ todo' = MutPopped
            /\ UNCHANGED did_outbound
    /\ UNCHANGED <<mut_graph, mut_root, mut_rewrite, cache,
                   outbound_premises_stack, mut_calls, mut_rebuilt>>
    /\ UNCHANGED notMutVars

MutSubproofOpen ==
    /\ MutFresh
    /\ MutInput.kind = "subproof" /\ ~MutIsDone
    /\ MutNode \in did_outbound
    /\ IF MutDepthAsserted
       THEN /\ todo' = MutPopped \o <<Revisit(MutNode), <<MutInput.last_step, FALSE>>>>
            /\ outbound_premises_stack' = Append(outbound_premises_stack, <<>>)
            /\ UNCHANGED mut_outcome
       ELSE /\ mut_outcome' = Panicked(<<"assert", "outbound premises">>)
            /\ todo' = MutPopped
            /\ UNCHANGED outbound_premises_stack
    /\ UNCHANGED <<mut_graph, mut_root, mut_rewrite, cache, did_outbound,
                   mut_calls, mut_rebuilt>>
    /\ UNCHANGED notMutVars

MutSubproofClose ==
    /\ MutFresh
    /\ MutInput.kind = "subproof" /\ MutIsDone
    /\ LET outbound_premises ==
               outbound_premises_stack[Len(outbound_premises_stack)]
           popped == SubSeq(outbound_premises_stack, 1,
                            Len(outbound_premises_stack) - 1)
       IN MutInsert(popped,
                    SubproofNode(cache[MutInput.last_step], MutInput.args,
                                 outbound_premises))
    /\ UNCHANGED <<mut_graph, mut_root, mut_rewrite, did_outbound, mut_calls,
                   mut_rebuilt>>
    /\ UNCHANGED notMutVars

MutReturn ==
    /\ mut_outcome = Running /\ todo = <<>>
    /\ mut_outcome' =
         IF Len(outbound_premises_stack) = 1 /\ outbound_premises_stack[1] = <<>>
         THEN MutReturned(cache[mut_root])
         ELSE Panicked(<<"assert", "outbound_premises_stack">>)
    /\ UNCHANGED <<mut_graph, mut_root, mut_rewrite, todo, cache, did_outbound,
                   outbound_premises_stack, mut_calls, mut_rebuilt>>
    /\ UNCHANGED notMutVars

(***************************************************************************)
(* The graphs `mutate` is run on: two assumptions, a subproof of an        *)
(* assumption and three steps, and a root step that uses the subproof.     *)
(* Every step draws its premises from the nodes that precede it.           *)
(***************************************************************************)
\* The sequences without repetition of elements of S.
RECURSIVE Arrangements(_)
Arrangements(S) ==
    {<<>>} \cup UNION {{<<x>> \o r : r \in Arrangements(S \ {x})} : x \in S}

\* The targets a subproof's outbound_premises must hold: the premises of the
\* steps inside it that lie at a shallower depth.
OutboundTargets(inside, depth_of, premises_of, depth) ==
    {q \in 1..Len(depth_of) :
        /\ depth_of[q] < depth
        /\ \E n \in inside : \E k \in 1..Len(premises_of[n]) :
               premises_of[n][k] = q}

\* The orders in which an input subproof may list its outbound premises.
OutboundOrders(targets) ==
    {a \in Arrangements(targets) : Len(a) = Cardinality(targets)}

\* The most premises the last step of the subproof is given.
MaxLastStepPremises == 2

MutDepths == <<0, 0, 1, 1, 1, 1, 0, 0>>

MutInside(p5, p6) ==
    (IF \E k \in 1..Len(p5 \o p6) : (p5 \o p6)[k] = 4 THEN {4} ELSE {}) \cup {5, 6}

MutGraph(p4, p5, p6, p8, outbound) ==
    <<AssumeNode("a1", 0, Eq(Var(1), Var(2))),
      AssumeNode("a2", 0, Eq(Var(2), Var(3))),
      AssumeNode("b1", 1, Eq(Var(3), Var(3))),
      StepNode("u1", 1, <<Eq(Var(1), Var(3))>>, "trans", p4, <<>>, <<>>, <<>>),
      StepNode("u2", 1, <<Eq(Var(3), Var(1))>>, "trans", p5, <<>>, <<>>, <<>>),
      StepNode("u3", 1, <<Eq(Var(1), Var(1))>>, "subproof", p6, <<>>, <<3>>, <<5>>),
      SubproofNode(6, <<>>, outbound),
      StepNode("r", 0, <<Eq(Var(1), Var(1))>>, "hole", p8, <<>>, <<>>, <<>>)>>

MutGraphsOneSubproof ==
    UNION {{MutGraph(p4, p5, p6, p8, outbound) :
               outbound \in OutboundOrders(
                   OutboundTargets(MutInside(p5, p6), MutDepths,
                                   <<<<>>, <<>>, <<>>, p4, p5, p6, <<>>, p8>>, 1))} :
        p4 \in Arrangements({1, 2}), p5 \in Arrangements({1, 2, 4}),
        p6 \in {a \in Arrangements({1, 4, 5}) : Len(a) <= MaxLastStepPremises},
        p8 \in {<<7>>, <<1, 7>>}}

\* Two subproofs side by side, the second free to use the first: an
\* assumption, the step c1 that is the first subproof, the step c2 that is
\* the second, and a root step.
MutGraphSiblings(rule, p2, p4, p6) ==
    LET premises_of == <<<<>>, p2, <<>>, p4, <<>>, p6>>
        depth_of == <<0, 1, 0, 1, 0, 0>>
    IN {<<AssumeNode("a1", 0, Eq(Var(1), Var(2))),
          StepNode("c1", 1, <<Eq(Var(2), Var(1))>>, rule, p2, <<>>, <<>>, <<>>),
          SubproofNode(2, <<>>, o3),
          StepNode("c2", 1, <<Eq(Var(1), Var(2))>>, "hole", p4, <<>>, <<>>, <<>>),
          SubproofNode(4, <<>>, o5),
          StepNode("r", 0, <<Eq(Var(1), Var(2))>>, "hole", p6, <<>>, <<>>, <<>>)>> :
            o3 \in OutboundOrders(OutboundTargets({2}, depth_of, premises_of, 1)),
            o5 \in OutboundOrders(OutboundTargets({4}, depth_of, premises_of, 1))}

\* A subproof inside a subproof: the step c1 at depth 2 is the inner
\* subproof, which the step c2 at depth 1, the outer subproof, uses.
MutGraphNested(rule, p2, p4) ==
    LET premises_of == <<<<>>, p2, <<>>, p4, <<>>, <<5>>>>
        depth_of == <<0, 2, 1, 1, 0, 0>>
    IN {<<AssumeNode("a1", 0, Eq(Var(1), Var(2))),
          StepNode("c1", 2, <<Eq(Var(2), Var(1))>>, rule, p2, <<>>, <<>>, <<>>),
          SubproofNode(2, <<>>, o3),
          StepNode("c2", 1, <<Eq(Var(1), Var(2))>>, "hole", p4, <<>>, <<>>, <<>>),
          SubproofNode(4, <<>>, o5),
          StepNode("r", 0, <<Eq(Var(1), Var(2))>>, "hole", <<5>>, <<>>, <<>>, <<>>)>> :
            o3 \in OutboundOrders(OutboundTargets({2}, depth_of, premises_of, 2)),
            o5 \in OutboundOrders(OutboundTargets({2, 4}, depth_of, premises_of, 1))}

\* The graphs on which the termination of the loop is checked: those of
\* two subproofs, side by side or nested, whose first step is a trans step
\* or not.
MutGraphsLive ==
    UNION {MutGraphSiblings(rule, p2, p4, p6) :
                  rule \in {"hole", "trans"}, p2 \in {<<>>, <<1>>}, p4 \in Arrangements({1, 3}),
                  p6 \in {<<5>>, <<3, 5>>, <<5, 3>>}}
    \cup UNION {MutGraphNested(rule, p2, p4) :
                  rule \in {"hole", "trans"}, p2 \in {<<>>, <<1>>}, p4 \in {<<3>>, <<1, 3>>, <<3, 1>>}}

MutGraphs ==
    MutGraphsOneSubproof
    \cup UNION {MutGraphSiblings(rule, p2, p4, p6) :
                  rule \in {"hole", "trans"}, p2 \in {<<>>, <<1>>}, p4 \in Arrangements({1, 3}),
                  p6 \in {<<5>>, <<3, 5>>, <<5, 3>>}}
    \cup UNION {MutGraphNested(rule, p2, p4) :
                  rule \in {"hole", "trans"}, p2 \in {<<>>, <<1>>}, p4 \in {<<3>>, <<1, 3>>, <<3, 1>>}}

(***************************************************************************)
(* StepElaborator (elaborator/step.rs) over the Elaborator it borrows.  A  *)
(* frame of the Elaborator holds new_indices, where each original command  *)
(* of the subproof lies in the emitted proof, and current_offset, how many *)
(* more commands than the original ones were emitted.                      *)
(***************************************************************************)
NewFrame == [new_indices |-> <<>>, current_offset |-> 0]

\* Elaborator::depth
InnerDepth(inner) == Len(inner) - 1
\* Elaborator::current_subproof_len: the commands emitted so far in the
\* current subproof.
InnerCurrentSubproofLen(inner) == ElabNextIndex(inner[Len(inner)])
\* Elaborator::map_index
InnerMapIndex(inner, index) == inner[index[1] + 1].new_indices[index[2] + 1]

\* Elaborator::unchanged
InnerUnchanged(inner) ==
    [inner EXCEPT ![Len(inner)].new_indices =
        Append(@, <<InnerDepth(inner), InnerCurrentSubproofLen(inner)>>)]
\* Elaborator::open_subproof
InnerOpenSubproof(inner) == Append(inner, NewFrame)
\* Elaborator::close_subproof: the closed subproof takes one index of the
\* enclosing subproof.
InnerCloseSubproof(inner) == InnerUnchanged(SubSeq(inner, 1, Len(inner) - 1))
\* The Elaborator taking the n commands of a finished StepElaborator in place
\* of the step.
InnerPushElaboration(inner, n) ==
    [inner EXCEPT
        ![Len(inner)].new_indices =
            Append(@, <<InnerDepth(inner), InnerCurrentSubproofLen(inner) + n - 1>>),
        ![Len(inner)].current_offset = @ + n - 1]

\* fn offset(&self) -> usize { self.stack[0].len() }
StepOffset(stack) == Len(stack[1])
\* fn depth(&self) -> usize { self.stack.len() - 1 }
StepDepth(stack) == Len(stack) - 1

\* d == self.inner.depth() && d >= self.inner.current_subproof_len()
ShouldOffset(d, i, inner) ==
    d = InnerDepth(inner) /\ d >= InnerCurrentSubproofLen(inner)

\* StepElaborator::map_index
StepMapIndex(inner, stack, index) ==
    LET m == InnerMapIndex(inner, index)
    IN IF ShouldOffset(m[1], m[2], inner)
       THEN <<m[1], m[2] + StepOffset(stack)>>
       ELSE m

\* StepElaborator::next_id
RECURSIVE NextIdFrom(_, _, _)
NextIdFrom(current, stack, k) ==
    IF k > Len(stack) THEN current
    ELSE NextIdFrom(current \o ".t" \o ToString(Len(stack[k]) + 1), stack, k + 1)

\* The mutation of next_id that counts the commands of each frame from 0.
RECURSIVE NextIdCountingFromZero(_, _)
NextIdCountingFromZero(root_id, stack) ==
    IF stack = <<>> THEN root_id
    ELSE NextIdCountingFromZero(root_id, SubSeq(stack, 1, Len(stack) - 1))
             \o ".t" \o ToString(Len(stack[Len(stack)]))

next_id(root_id, stack) == NextIdFrom(root_id, stack, 1)

StepCommand(kind, id) == [kind |-> kind, id |-> id]
StepAdded(stack) == Len(stack[1]) + (IF Len(stack) > 1 THEN Len(stack[2]) ELSE 0)
    + (IF Len(stack) > 2 THEN Len(stack[3]) ELSE 0)

\* The references a step may hold: commands met before it at its own depth
\* or at an enclosing one.
ValidReferences(inner) ==
    {<<d, i>> \in (0..InnerDepth(inner)) \X (0..MaxFrameCommands) :
        i < Len(inner[d + 1].new_indices)}

\* The Elaborator meets a command that it leaves as it is.
SeInnerUnchanged ==
    /\ ~se_active
    /\ Len(se_inner[Len(se_inner)].new_indices) < MaxFrameCommands
    /\ se_inner' = InnerUnchanged(se_inner)
    /\ UNCHANGED <<se_active, se_root_id, se_stack, se_returned, se_calls, se_closed>>
    /\ UNCHANGED notStepVars

SeInnerOpenSubproof ==
    /\ ~se_active
    /\ InnerDepth(se_inner) < MaxInnerDepth
    /\ Len(se_inner[Len(se_inner)].new_indices) < MaxFrameCommands
    /\ se_inner' = InnerOpenSubproof(se_inner)
    /\ UNCHANGED <<se_active, se_root_id, se_stack, se_returned, se_calls, se_closed>>
    /\ UNCHANGED notStepVars

\* The references into the closed subproof are no longer references.
SeInnerCloseSubproof ==
    /\ ~se_active
    /\ InnerDepth(se_inner) >= 1
    /\ se_inner[Len(se_inner)].new_indices # <<>>
    /\ se_inner' = InnerCloseSubproof(se_inner)
    /\ se_calls' = SelectSeq(se_calls, LAMBDA c : c.index[1] < InnerDepth(se_inner))
    /\ UNCHANGED <<se_active, se_root_id, se_stack, se_returned, se_closed>>
    /\ UNCHANGED notStepVars

\* StepElaborator::new
SeNew ==
    /\ ~se_active
    /\ Len(se_inner[Len(se_inner)].new_indices) < MaxFrameCommands
    /\ se_active' = TRUE
    /\ se_root_id' = "s" \o ToString(InnerCurrentSubproofLen(se_inner))
    /\ se_stack' = <<<<>>>>
    /\ se_returned' = <<>>
    /\ se_closed' = <<>>
    /\ UNCHANGED <<se_inner, se_calls>>
    /\ UNCHANGED notStepVars

SeMapIndex ==
    /\ se_active
    /\ Len(se_calls) < MaxCalls
    /\ \E index \in ValidReferences(se_inner) :
        /\ se_returned' = StepMapIndex(se_inner, se_stack, index)
        /\ se_calls' = Append(se_calls,
              [index |-> index,
               mapped |-> InnerMapIndex(se_inner, index),
               emitted |-> ElabNextIndex(se_inner[index[1] + 1]),
               current |-> index[1] = InnerDepth(se_inner),
               offset |-> StepOffset(se_stack),
               result |-> StepMapIndex(se_inner, se_stack, index)])
    /\ UNCHANGED <<se_inner, se_active, se_root_id, se_stack, se_closed>>
    /\ UNCHANGED notStepVars

\* StepElaborator::add_new_command
SeAddNewCommand ==
    /\ se_active
    /\ StepAdded(se_stack) < MaxAdded
    /\ \E kind \in {"assume", "step"} :
        LET index == IF StepDepth(se_stack) = 0
                     THEN InnerCurrentSubproofLen(se_inner) + StepOffset(se_stack)
                     ELSE Len(se_stack[Len(se_stack)])
            depth == InnerDepth(se_inner) + StepDepth(se_stack)
        IN /\ se_stack' = [se_stack EXCEPT ![Len(se_stack)] =
                  Append(@, StepCommand(kind, next_id(se_root_id, se_stack)))]
           /\ se_returned' = <<depth, index>>
    /\ UNCHANGED <<se_inner, se_active, se_root_id, se_calls, se_closed>>
    /\ UNCHANGED notStepVars

\* StepElaborator::open_subproof
SeOpenSubproof ==
    /\ se_active
    /\ StepDepth(se_stack) < MaxStepDepth
    /\ Len(se_closed) + StepDepth(se_stack) < MaxClosed
    /\ se_stack' = Append(se_stack, <<>>)
    /\ UNCHANGED <<se_inner, se_active, se_root_id, se_returned, se_calls, se_closed>>
    /\ UNCHANGED notStepVars

\* StepElaborator::close_subproof, called as its unwrap and its
\* unreachable! require: on an open subproof whose last command is a step.
SeCloseSubproof ==
    /\ se_active
    /\ StepDepth(se_stack) >= 1
    /\ se_stack[Len(se_stack)] # <<>>
    /\ se_stack[Len(se_stack)][Len(se_stack[Len(se_stack)])].kind = "step"
    /\ LET commands == se_stack[Len(se_stack)]
           popped == SubSeq(se_stack, 1, Len(se_stack) - 1)
           subproof == [kind |-> "subproof",
                        commands |-> [commands EXCEPT ![Len(commands)].id =
                                         next_id(se_root_id, popped)]]
       IN /\ se_stack' = popped
          /\ se_returned' = subproof
          /\ se_closed' = Append(se_closed, subproof)
    /\ UNCHANGED <<se_inner, se_active, se_root_id, se_calls>>
    /\ UNCHANGED notStepVars

\* StepElaborator::end, and the Elaborator taking the commands it returns.
SeEnd ==
    /\ se_active
    /\ StepDepth(se_stack) = 0
    /\ se_stack[1] # <<>>
    /\ se_inner' = InnerPushElaboration(se_inner, Len(se_stack[1]))
    /\ se_active' = FALSE
    /\ se_returned' = se_stack[1]
    /\ se_stack' = <<>>
    /\ UNCHANGED <<se_root_id, se_calls, se_closed>>
    /\ UNCHANGED notStepVars

(***************************************************************************)
(* The term pool.  An entry is a structural key: a terminal, or an         *)
(* application whose arguments are handles of entries.  A handle is the    *)
(* position of its entry.                                                  *)
(***************************************************************************)
Terminal(name) == <<"terminal", name>>
App(op, a, b) == <<"app", op, a, b>>

\* TermPool::new: the pool is preseeded with Bool, true and false.
NewPool == <<Terminal("Bool"), Terminal("true"), Terminal("false")>>

\* The term a key stands for, its arguments written out.
RECURSIVE Structure(_, _)
Structure(terms, key) ==
    IF key[1] = "terminal" THEN key
    ELSE App(key[2], Structure(terms, terms[key[3]]), Structure(terms, terms[key[4]]))

\* The lookup of a key, finding nothing.
PoolFindNothing(terms, key) == {}

\* The handles of the entries equal to the key.
PoolFind(terms, key) == {h \in 1..Len(terms) : terms[h] = key}

\* TermPool::add: the handle of the entry if there is one, or of a new entry.
PoolAddHandle(terms, key) ==
    IF PoolFind(terms, key) # {} THEN CHOOSE h \in PoolFind(terms, key) : TRUE
    ELSE Len(terms) + 1

PoolAddTerms(terms, key) ==
    IF PoolFind(terms, key) # {} THEN terms ELSE Append(terms, key)

\* The keys that may be added: terminals, and applications of terms that are
\* in the pool.
PoolKeys(terms) ==
    {Terminal(n) : n \in {"1", "true"}}
        \cup {App("+", a, b) : a \in 1..Len(terms), b \in 1..Len(terms)}

PoolAdd ==
    /\ Len(pool_adds) < MaxAdds
    /\ \E key \in PoolKeys(pool_terms) :
        /\ pool_terms' = PoolAddTerms(pool_terms, key)
        /\ pool_adds' = Append(pool_adds,
              [term |-> Structure(pool_terms, key),
               handle |-> PoolAddHandle(pool_terms, key)])
    /\ UNCHANGED notPoolVars

(***************************************************************************)
(* The parser of proof commands: `assume`, `step` with :premises, and      *)
(* `anchor`.  A scope lists (id, index) pairs; a command keeps, next to    *)
(* its resolved premises, the ids they were written as.                    *)
(***************************************************************************)
ParsedCommand(kind, id, refs, premises) ==
    [kind |-> kind, id |-> id, refs |-> refs, premises |-> premises]
ParsedSubproof(commands) == [kind |-> "subproof", commands |-> commands]

\* The id of a command; of a subproof, the id of its last step.
CommandId(command) ==
    IF command.kind = "subproof"
    THEN command.commands[Len(command.commands)].id
    ELSE command.id

ScopeHas(scope, id) == \E k \in 1..Len(scope) : scope[k][1] = id
ScopeGet(scope, id) == scope[CHOOSE k \in 1..Len(scope) : scope[k][1] = id][2]

\* The lookup of an id, answering the depth of the innermost scope whatever
\* scope holds the id.
GetWithDepthInnermost(scopes, id) ==
    LET d == CHOOSE k \in 1..Len(scopes) : ScopeHas(scopes[k], id)
    IN <<Len(scopes) - 1, ScopeGet(scopes[d], id)>>

\* The lookup of an id through the scopes, innermost first: the depth of
\* the scope that holds it and the index it holds for it.
GetWithDepth(scopes, id) ==
    LET d == CHOOSE k \in 1..Len(scopes) :
                 /\ ScopeHas(scopes[k], id)
                 /\ \A j \in (k + 1)..Len(scopes) : ~ScopeHas(scopes[j], id)
    IN <<d - 1, ScopeGet(scopes[d], id)>>

\* The ids a step can refer to, outermost scope first.
RECURSIVE VisibleIds(_, _)
VisibleIds(scopes, k) ==
    IF k > Len(scopes) THEN <<>>
    ELSE [j \in 1..Len(scopes[k]) |-> scopes[k][j][1]] \o VisibleIds(scopes, k + 1)

ResolvePremises(scopes, refs) ==
    [k \in 1..Len(refs) |-> GetWithDepth(scopes, refs[k])]

\* After a command was pushed: its id is entered in the innermost scope
\* with the index of the last command of the innermost list.
ParseRegister(stack, scopes, id) ==
    [scopes EXCEPT ![Len(scopes)] =
        Append(@, <<id, Len(stack[Len(stack)]) - 1>>)]

ParsePush(stack, command) == [stack EXCEPT ![Len(stack)] = Append(@, command)]

\* The subproof closes: its list becomes one command of the enclosing list.
ParseClose(stack) ==
    ParsePush(SubSeq(stack, 1, Len(stack) - 1), ParsedSubproof(stack[Len(stack)]))

ParseRunning == pa_count < MaxParseCommands

PaAssume ==
    /\ ParseRunning
    /\ LET id == "h" \o ToString(pa_count + 1)
           pushed == ParsePush(pa_stack, ParsedCommand("assume", id, <<>>, <<>>))
       IN /\ pa_stack' = pushed
          /\ pa_ids' = ParseRegister(pushed, pa_ids, id)
    /\ pa_count' = pa_count + 1
    /\ UNCHANGED pa_ends
    /\ UNCHANGED notParseVars

\* A step that closes no subproof.
PaStep ==
    /\ ParseRunning
    /\ \E refs \in {<<>>, VisibleIds(pa_ids, 1)} :
        LET id == "s" \o ToString(pa_count + 1)
            pushed == ParsePush(pa_stack,
                          ParsedCommand("step", id, refs, ResolvePremises(pa_ids, refs)))
        IN /\ pa_stack' = pushed
           /\ pa_ids' = ParseRegister(pushed, pa_ids, id)
    /\ pa_count' = pa_count + 1
    /\ UNCHANGED pa_ends
    /\ UNCHANGED notParseVars

\* (anchor :step id)
PaAnchor ==
    /\ ParseRunning
    /\ Len(pa_stack) - 1 < MaxParseDepth
    /\ pa_stack' = Append(pa_stack, <<>>)
    /\ pa_ids' = Append(pa_ids, <<>>)
    /\ pa_ends' = Append(pa_ends, "t" \o ToString(pa_count + 1))
    /\ pa_count' = pa_count + 1
    /\ UNCHANGED notParseVars

\* The step whose id is that of the innermost anchor.
PaEndStep ==
    /\ ParseRunning
    /\ pa_ends # <<>>
    /\ \E refs \in {<<>>, VisibleIds(pa_ids, 1)} :
        LET id == pa_ends[Len(pa_ends)]
            pushed == ParsePush(pa_stack,
                          ParsedCommand("step", id, refs, ResolvePremises(pa_ids, refs)))
            closed == ParseClose(pushed)
        IN /\ pa_stack' = closed
           /\ pa_ids' = ParseRegister(closed, SubSeq(pa_ids, 1, Len(pa_ids) - 1), id)
    /\ pa_ends' = SubSeq(pa_ends, 1, Len(pa_ends) - 1)
    /\ pa_count' = pa_count + 1
    /\ UNCHANGED notParseVars

(***************************************************************************)
(* The lexer (parser/lexer.rs).  The input is one line of characters, each *)
(* a string of length one; "{" stands for the characters that start no     *)
(* token.  A reading function returns its outcome and the characters left. *)
(***************************************************************************)
LexChars == {"0", "1", ".", "#", "x", "b", "|", "\\", "\"", " ", "{"}

AsciiDigits == {"0", "1"}
\* char::is_digit(base) for the bases 2 and 16.
DigitsOfBase(base) == IF base = 2 THEN {"0", "1"} ELSE {"0", "1", "b"}
DigitValue(c) == IF c = "0" THEN 0 ELSE IF c = "1" THEN 1 ELSE 11
Whitespace == {" "}
\* Lexer::is_symbol_character
SymbolCharacters == {"0", "1", "x", "b", "."}

LexOk(token, rest) == [out |-> [kind |-> "ok", token |-> token], rest |-> rest]
LexErr(error, rest) == [out |-> [kind |-> "err", error |-> error], rest |-> rest]
LexPanic(what, rest) == [out |-> [kind |-> "panic", what |-> what], rest |-> rest]

\* read_chars_while: how many leading characters satisfy the predicate.
RECURSIVE ReadCharsWhile(_, _)
ReadCharsWhile(chars, accepted) ==
    IF chars = <<>> \/ Head(chars) \notin accepted THEN 0
    ELSE 1 + ReadCharsWhile(Tail(chars), accepted)

Drop(chars, n) == SubSeq(chars, n + 1, Len(chars))

RECURSIVE Text(_)
Text(chars) == IF chars = <<>> THEN "" ELSE Head(chars) \o Text(Tail(chars))

\* The number a string of digits writes in a base.
RECURSIVE FromStrRadix(_, _, _)
FromStrRadix(chars, base, acc) ==
    IF chars = <<>> THEN acc
    ELSE FromStrRadix(Tail(chars), base, acc * base + DigitValue(Head(chars)))

RECURSIVE Pow(_, _)
Pow(base, n) == IF n = 0 THEN 1 ELSE base * Pow(base, n - 1)

RECURSIVE Gcd(_, _)
Gcd(a, b) == IF b = 0 THEN a ELSE Gcd(b, a % b)

\* Ratio::new: the fraction in lowest terms.
Ratio(numer, denom) ==
    <<numer \div Gcd(numer, denom), denom \div Gcd(numer, denom)>>

\* consume_whitespace (the model's inputs hold no comment)
consume_whitespace(chars) == Drop(chars, ReadCharsWhile(chars, Whitespace))

read_simple_symbol(chars) ==
    LET n == ReadCharsWhile(chars, SymbolCharacters)
    IN LexOk(<<"Symbol", Text(SubSeq(chars, 1, n))>>, Drop(chars, n))

read_quoted_symbol(chars) ==
    LET body == Tail(chars)
        n == ReadCharsWhile(body, LexChars \ {"|", "\\"})
        rest == Drop(body, n)
    IN IF rest = <<>> THEN LexErr(<<"EofInQuotedSymbol">>, rest)
       ELSE IF Head(rest) = "\\" THEN LexErr(<<"BackslashInQuotedSymbol">>, rest)
       ELSE LexOk(<<"Symbol", Text(SubSeq(body, 1, n))>>, Tail(rest))

\* u64::from_str_radix(&s, base).unwrap()
ParseDigits(chars, base, rest) ==
    IF chars = <<>> THEN LexPanic("from_str_radix: empty string", rest)
    ELSE LexOk(<<"Numeral", FromStrRadix(chars, base, 0)>>, rest)

read_number_with_base(chars) ==
    LET after == Tail(chars)
    IN IF after = <<>>
       THEN LexErr(<<"UnexpectedChar", <<"b", "x">>, "None">>, after)
       ELSE IF Head(after) \notin {"b", "x"}
       THEN LexErr(<<"UnexpectedChar", <<"b", "x">>, Head(after)>>, Tail(after))
       ELSE LET base == IF Head(after) = "b" THEN 2 ELSE 16
                digits == Tail(after)
                n == ReadCharsWhile(digits, DigitsOfBase(base))
            IN ParseDigits(SubSeq(digits, 1, n), base, Drop(digits, n))

\* The test of read_number that refuses every integer part that begins with 0.
HasLeadingZeroStrict(int_part) == Head(int_part) = "0"

\* int_part.len() > 1 && int_part.starts_with('0')
HasLeadingZero(int_part) == Len(int_part) > 1 /\ Head(int_part) = "0"

\* u64::MAX, 18446744073709551615, digit by digit.
U64MaxDigits == <<1, 8, 4, 4, 6, 7, 4, 4, 0, 7, 3, 7, 0, 9, 5, 5, 1, 6, 1, 5>>

RECURSIVE StripZeros(_)
StripZeros(digits) ==
    IF digits # <<>> /\ Head(digits) = 0 THEN StripZeros(Tail(digits))
    ELSE digits

\* Of two digit strings of the same length, whether the first writes the
\* smaller or the same number.
RECURSIVE DigitsLessOrEqual(_, _)
DigitsLessOrEqual(a, b) ==
    IF a = <<>> THEN TRUE
    ELSE IF Head(a) # Head(b) THEN Head(a) < Head(b)
    ELSE DigitsLessOrEqual(Tail(a), Tail(b))

\* Whether the number the digits write is a u64.
FitsU64(digits) ==
    LET d == StripZeros(digits)
    IN \/ Len(d) < Len(U64MaxDigits)
       \/ Len(d) = Len(U64MaxDigits) /\ DigitsLessOrEqual(d, U64MaxDigits)

DigitValues(chars) == [k \in 1..Len(chars) |-> DigitValue(chars[k])]

\* The digits of 10^n.
PowerOfTenDigits(n) == <<1>> \o [k \in 1..n |-> 0]

\* 10u64.pow(n) when 10^n is not a u64: the checked build panics; the
\* unchecked one wraps to 10^n mod 2^64, which is 0 from n = 64 on, and
\* Ratio::new panics on a zero denominator. A wrapped quotient is kept as
\* the triple of the mark, the digits of the numerator and n.
WrappedDecimal(digits, n, after) ==
    IF lex_checked
    THEN LexPanic("attempt to multiply with overflow", after)
    ELSE IF n >= 64 THEN LexPanic("Ratio::new: denominator == 0", after)
    ELSE LexOk(<<"Decimal", <<"wrapped", Text(digits), n>>>>, after)

read_number(chars) ==
    LET n == ReadCharsWhile(chars, AsciiDigits)
        int_part == SubSeq(chars, 1, n)
        rest == Drop(chars, n)
    IN IF HasLeadingZero(int_part)
       THEN LexErr(<<"LeadingZero", Text(int_part)>>, rest)
       ELSE IF rest # <<>> /\ Head(rest) = "."
       THEN LET m == ReadCharsWhile(Tail(rest), AsciiDigits)
                frac_part == SubSeq(Tail(rest), 1, m)
                after == Drop(Tail(rest), m)
                pow_overflows == ~FitsU64(PowerOfTenDigits(Len(frac_part)))
                digits == int_part \o frac_part
            IN IF pow_overflows /\ lex_checked
               THEN WrappedDecimal(digits, Len(frac_part), after)
               ELSE IF ~FitsU64(DigitValues(digits))
               THEN LexPanic("parse::<u64>().unwrap(): PosOverflow", after)
               ELSE IF pow_overflows
               THEN WrappedDecimal(digits, Len(frac_part), after)
               ELSE LexOk(<<"Decimal", Ratio(FromStrRadix(digits, 10, 0),
                                             Pow(10, Len(frac_part)))>>, after)
       ELSE IF ~FitsU64(DigitValues(int_part))
       THEN LexPanic("parse().unwrap(): PosOverflow", rest)
       ELSE LexOk(<<"Numeral", FromStrRadix(int_part, 10, 0)>>, rest)

\* read_string: a doubled quote inside the string stands for one quote.
RECURSIVE ReadStringLoop(_, _)
ReadStringLoop(chars, result) ==
    LET n == ReadCharsWhile(chars, LexChars \ {"\""})
        read == result \o Text(SubSeq(chars, 1, n))
        rest == Drop(chars, n)
    IN IF rest = <<>> THEN LexErr(<<"EofInString">>, rest)
       ELSE IF Tail(rest) # <<>> /\ Head(Tail(rest)) = "\""
       THEN ReadStringLoop(Tail(Tail(rest)), read \o "\"")
       ELSE LexOk(<<"String", read>>, Tail(rest))

read_string(chars) == ReadStringLoop(Tail(chars), "")

\* Lexer::next_token
next_token(input) ==
    LET chars == consume_whitespace(input)
    IN IF chars = <<>> THEN LexOk(<<"Eof">>, chars)
       ELSE IF Head(chars) = "\"" THEN read_string(chars)
       ELSE IF Head(chars) = "|" THEN read_quoted_symbol(chars)
       ELSE IF Head(chars) = "#" THEN read_number_with_base(chars)
       ELSE IF Head(chars) \in AsciiDigits THEN read_number(chars)
       ELSE IF Head(chars) \in SymbolCharacters THEN read_simple_symbol(chars)
       ELSE LexPanic("todo!()", chars)

\* One call of next_token; the caller stops at Eof and at a failure.
LexNextToken ==
    /\ lex_state = "running"
    /\ LET r == next_token(lex_chars)
       IN /\ lex_results' = Append(lex_results, r.out)
          /\ lex_chars' = r.rest
          /\ lex_state' = IF r.out.kind = "ok" /\ r.out.token # <<"Eof">>
                          THEN "running" ELSE "stopped"
    /\ UNCHANGED lex_checked
    /\ UNCHANGED notLexVars

LexInputs == UNION {[1..n -> LexChars] : n \in 0..MaxInputLen}

\* The decimal literals I.F given to the lexer: every one of at most
\* MaxExactDigits digits, and the long ones, of more than MinLongFracLen
\* digits after the point, that are zeros but for the last digit.
IntParts == UNION {[1..n -> AsciiDigits] : n \in 1..MaxIntPartLen}
ShortFracParts(int_part) ==
    UNION {[1..n -> AsciiDigits] : n \in 0..(MaxExactDigits - Len(int_part))}
LongFracParts ==
    {[k \in 1..n |-> IF k < n THEN "0" ELSE d] :
        n \in (MinLongFracLen + 1)..MaxFracLen, d \in AsciiDigits}
DecimalLiterals ==
    {i \o <<".">> \o f : i \in IntParts, f \in LongFracParts}
    \cup UNION {{i \o <<".">> \o f : f \in ShortFracParts(i)} : i \in IntParts}

(***************************************************************************)
(* The benchmark runner (cli/src/benchmarking.rs).  A job is a pair of an  *)
(* instance and a run index.  ArrayQueue::pop is one atomic step.          *)
(***************************************************************************)
Jobs(config) ==
    {<<i, r>> : i \in 1..config.instances, r \in 0..(config.num_runs - 1)}

\* The queue as run_benchmark fills it: run by run, the instances in order.
FilledQueue(config) ==
    [k \in 1..(config.instances * config.num_runs) |->
        <<((k - 1) % config.instances) + 1, (k - 1) \div config.instances>>]

NoJob == <<>>

\* A worker that gives up at the first job that returns an error.
WorkerAfterErrorStops == "returned"

\* worker_thread logs the error of a job and goes on to pop the next one.
WorkerAfterError == "pop"

\* run_benchmark spawns the next worker thread; with the last one spawned it
\* goes on to join them.
BmSpawn ==
    /\ bm_main = "spawning"
    /\ \E w \in 1..bm_config.num_threads :
          /\ bm_workers[w].pc = "unspawned"
          /\ \A v \in 1..(w - 1) : bm_workers[v].pc # "unspawned"
          /\ bm_workers' = [bm_workers EXCEPT ![w].pc = "pop"]
          /\ bm_main' = IF w = bm_config.num_threads THEN "joining" ELSE "spawning"
    /\ UNCHANGED <<bm_config, bm_queue, bm_ran, bm_measured>>
    /\ UNCHANGED notBenchVars

\* while let Some(job) = jobs_queue.pop()
BmPop(w) ==
    /\ bm_workers[w].pc = "pop"
    /\ bm_queue # <<>>
    /\ bm_workers' = [bm_workers EXCEPT ![w] = [pc |-> "run", job |-> Head(bm_queue)]]
    /\ bm_queue' = Tail(bm_queue)
    /\ UNCHANGED <<bm_config, bm_main, bm_ran, bm_measured>>
    /\ UNCHANGED notBenchVars

\* jobs_queue.pop() returns None: the worker returns its results.
BmPopNone(w) ==
    /\ bm_workers[w].pc = "pop"
    /\ bm_queue = <<>>
    /\ bm_workers' = [bm_workers EXCEPT ![w].pc = "returned"]
    /\ UNCHANGED <<bm_config, bm_queue, bm_main, bm_ran, bm_measured>>
    /\ UNCHANGED notBenchVars

\* run_job unwraps proof_file.to_str(): a path that is not UTF-8 panics, the
\* worker thread ends without returning.
BmRunJobPanic(w) ==
    /\ bm_workers[w].pc = "run"
    /\ bm_workers[w].job[1] \in bm_config.non_utf8
    /\ bm_ran' = [bm_ran EXCEPT ![bm_workers[w].job] = Append(@, w)]
    /\ bm_workers' = [bm_workers EXCEPT ![w] = [pc |-> "panicked", job |-> NoJob]]
    /\ UNCHANGED <<bm_config, bm_queue, bm_main, bm_measured>>
    /\ UNCHANGED notBenchVars

\* run_job returns Ok: the measurement of the run is added to the results.
BmRunJobOk(w) ==
    /\ bm_workers[w].pc = "run"
    /\ bm_workers[w].job[1] \notin bm_config.non_utf8 \cup bm_config.failing
    /\ bm_ran' = [bm_ran EXCEPT ![bm_workers[w].job] = Append(@, w)]
    /\ bm_measured' = [bm_measured EXCEPT ![w] = @ \cup {bm_workers[w].job}]
    /\ bm_workers' = [bm_workers EXCEPT ![w] = [pc |-> "pop", job |-> NoJob]]
    /\ UNCHANGED <<bm_config, bm_queue, bm_main>>
    /\ UNCHANGED notBenchVars

\* run_job returns Err (a file does not open or does not parse): the error
\* is logged.
BmRunJobErr(w) ==
    /\ bm_workers[w].pc = "run"
    /\ bm_workers[w].job[1] \in bm_config.failing \ bm_config.non_utf8
    /\ bm_ran' = [bm_ran EXCEPT ![bm_workers[w].job] = Append(@, w)]
    /\ bm_workers' = [bm_workers EXCEPT ![w] = [pc |-> WorkerAfterError, job |-> NoJob]]
    /\ UNCHANGED <<bm_config, bm_queue, bm_main, bm_measured>>
    /\ UNCHANGED notBenchVars

\* Every worker thread ended: run_benchmark returns the combined results, or
\* panics at join().unwrap() of a worker that panicked.
BmJoin ==
    /\ bm_main = "joining"
    /\ \A w \in 1..bm_config.num_threads : bm_workers[w].pc \in {"returned", "panicked"}
    /\ bm_main' = IF \E w \in 1..bm_config.num_threads : bm_workers[w].pc = "panicked"
                  THEN "panicked" ELSE "returned"
    /\ UNCHANGED <<bm_config, bm_queue, bm_workers, bm_ran, bm_measured>>
    /\ UNCHANGED notBenchVars

BenchConfigs ==
    {[instances |-> n, num_runs |-> r, num_threads |-> t, failing |-> f,
      non_utf8 |-> u] :
        n \in 1..MaxInstances, r \in 1..MaxRuns, t \in 1..MaxThreads,
        f \in SUBSET (1..MaxInstances), u \in SUBSET (1..MaxInstances)}

\* The instances named are instances of the benchmark, each with one outcome.
WellFormedConfig(c) ==
    /\ c.failing \cup c.non_utf8 \subseteq 1..c.instances
    /\ c.failing \cap c.non_utf8 = {}

(***************************************************************************)
(* Uncrowding of a resolution step: elaborator/uncrowding.rs.  A literal   *)
(* is a pair <<n, atom>>: the atom under n negations.  A pivot is a pair   *)
(* <<literal, polarity>>.  Premise indices and cuts are counted from 0 as  *)
(* in the source; sequences of the model are indexed from 1.               *)
(***************************************************************************)
MaxUcPremises == 3

Negated(lit) == <<lit[1] + 1, lit[2]>>

RECURSIVE literal_to_term(_)
literal_to_term(lit) ==
    IF lit[1] = 0 THEN lit[2]
    ELSE Not(literal_to_term(<<lit[1] - 1, lit[2]>>))

literals_to_clause(clause) == [k \in 1..Len(clause) |-> literal_to_term(clause[k])]

PivotInCurrent(p) == IF p[2] THEN p[1] ELSE Negated(p[1])

PivotInNext(p) == IF p[2] THEN Negated(p[1]) ELSE p[1]

UcOk(clause) == [ok |-> TRUE, clause |-> clause]

UcPanic(why) == [ok |-> FALSE, why |-> why]

\* The loop of apply_naive_resolution over premises[1..] zipped with pivots.
RECURSIVE NaiveLoop(_, _, _)
NaiveLoop(current, premises, pivots) ==
    IF premises = <<>> \/ pivots = <<>> THEN UcOk(current)
    ELSE LET pivot_in_current == PivotInCurrent(Head(pivots))
             pivot_in_next == PivotInNext(Head(pivots))
         IN IF ~Contains(current, pivot_in_current)
            THEN UcPanic("position(..).unwrap()")
            ELSE IF ~Contains(Head(premises), pivot_in_next)
            THEN UcPanic("assert!(found)")
            ELSE NaiveLoop(PushAllButFirst(RemoveFirst(current, pivot_in_current),
                                           Head(premises), pivot_in_next, FALSE),
                           Tail(premises), Tail(pivots))

apply_naive_resolution(premises, pivots) ==
    IF Len(premises) < 2 THEN UcPanic("assert!(premises.len() >= 2)")
    ELSE IF Len(pivots) # Len(premises) - 1
    THEN UcPanic("assert_eq!(pivots.len(), premises.len() - 1)")
    ELSE NaiveLoop(premises[1], Tail(premises), pivots)

\* for (i, clause) in premises.iter().enumerate(): every crowding literal of
\* the clause gets last_inclusion = i.
RECURSIVE InclusionLoop(_, _, _)
InclusionLoop(crowding_lits, premises, i) ==
    IF i >= Len(premises) THEN crowding_lits
    ELSE InclusionLoop([lit \in DOMAIN crowding_lits |->
                           IF Contains(premises[i + 1], lit)
                           THEN [crowding_lits[lit] EXCEPT !.last_inclusion = i]
                           ELSE crowding_lits[lit]],
                       premises, i + 1)

\* if i + 1 > info.last_inclusion { info.eliminator = i + 1; }
EliminatorAt(info, i) ==
    IF i + 1 > info.last_inclusion
    THEN [info EXCEPT !.eliminator = i + 1]
    ELSE info

\* for (i, &(pivot, polarity)) in pivots.iter().enumerate()
RECURSIVE EliminatorLoop(_, _, _)
EliminatorLoop(crowding_lits, pivots, i) ==
    IF i >= Len(pivots) THEN crowding_lits
    ELSE LET pivot_in_current == PivotInCurrent(pivots[i + 1])
         IN EliminatorLoop([lit \in DOMAIN crowding_lits |->
                               IF lit = pivot_in_current
                               THEN EliminatorAt(crowding_lits[lit], i)
                               ELSE crowding_lits[lit]],
                           pivots, i + 1)

find_crowding_literals(naive_conclusion, target_conclusion, premises, pivots) ==
    LET crowding_lits ==
            [lit \in {l \in {naive_conclusion[k] : k \in 1..Len(naive_conclusion)} :
                         l \notin target_conclusion} |->
                [last_inclusion |-> 0, eliminator |-> 0]]
    IN EliminatorLoop(InclusionLoop(crowding_lits, premises, 0), pivots, 0)

\* The two events of every entry of the map, as <<literal, event, index>>.
EventsOf(crowding_literals) ==
    UNION {{<<lit, "LastInclusion", crowding_literals[lit].last_inclusion>>,
            <<lit, "Elimination", crowding_literals[lit].eliminator>>} :
           lit \in DOMAIN crowding_literals}

\* The mutation of the order of the enum that puts LastInclusion first.
EventRankInclusionFirst(event) == IF event = "LastInclusion" THEN 0 ELSE 1

\* enum Event { Elimination, LastInclusion } with the derived Ord.
EventRank(event) == IF event = "Elimination" THEN 0 ELSE 1

\* The comparison given to sort_unstable_by.
EventLess(a, b) ==
    \/ a[3] < b[3]
    \/ a[3] = b[3] /\ EventRank(a[2]) < EventRank(b[2])

\* Every vector the collection from the HashMap followed by the unstable sort
\* may produce: the events in an order that the comparison accepts, events
\* that compare equal in any order.
RECURSIVE SortedEvents(_)
SortedEvents(events) ==
    IF events = {} THEN {<<>>}
    ELSE UNION {{<<e>> \o r : r \in SortedEvents(events \ {e})} :
                e \in {x \in events : \A y \in events : ~EventLess(y, x)}}

\* for (lit, event, index) in events { match event { .. } }
RECURSIVE WalkEvents(_, _, _)
WalkEvents(events, contractions, need_to_contract) ==
    IF events = <<>> THEN contractions
    ELSE LET lit == Head(events)[1]
             event == Head(events)[2]
             index == Head(events)[3]
         IN IF event = "LastInclusion"
            THEN WalkEvents(Tail(events), contractions, need_to_contract \cup {lit})
            ELSE IF lit \in need_to_contract
            THEN WalkEvents(Tail(events), Append(contractions, index), {})
            ELSE WalkEvents(Tail(events), contractions, need_to_contract)

\* find_needed_contractions, given the vector of events after the sort.
find_needed_contractions(events) == WalkEvents(events, <<>>, {})

\* ids.next_id() of the IdHelper made from the id of the step.
IdHelperNextId(root, counter) == <<root, counter>>

\* The two steps add_partial_resolution_step builds, and the contracted
\* conclusion it returns with the second.
add_partial_resolution_step(root, ids, depth, premises, premise_clauses, pivots) ==
    LET r == apply_naive_resolution(premise_clauses, pivots)
    IN IF ~r.ok THEN r
       ELSE LET conclusion == r.clause
                contracted_conclusion == Dedup(conclusion)
                args == [k \in 1..(2 * Len(pivots)) |->
                            IF k % 2 = 1
                            THEN literal_to_term(pivots[(k + 1) \div 2][1])
                            ELSE bool_constant(pivots[k \div 2][2])]
                clause == literals_to_clause(conclusion)
                contracted_clause == Dedup(clause)
                resolution_step ==
                    [id |-> IdHelperNextId(root, ids), depth |-> depth,
                     clause |-> clause, rule |-> "resolution",
                     premises |-> premises, args |-> args]
                contraction_step ==
                    [id |-> IdHelperNextId(root, ids + 1), depth |-> depth,
                     clause |-> contracted_clause, rule |-> "contraction",
                     premises |-> <<resolution_step>>, args |-> <<>>]
            IN [ok |-> TRUE, node |-> contraction_step,
                clause |-> contracted_conclusion]

NoLoop == [previous_cut |-> 0, previous_node |-> <<>>, previous_clause |-> <<>>,
           pivots |-> <<>>, ids |-> 1, next |-> 1]

\* uncrowd_resolution up to the naive conclusion of the whole step.
UcApplyNaive ==
    /\ uc_pc = "start"
    /\ LET r == apply_naive_resolution(uc_step.premises, uc_step.pivots)
       IN IF r.ok
          THEN /\ uc_naive' = r.clause
               /\ uc_pc' = "crowding"
          ELSE /\ uc_naive' = uc_naive
               /\ uc_pc' = "panicked"
    /\ UNCHANGED <<uc_step, uc_crowding, uc_events, uc_found, uc_contractions,
                   uc_loop, uc_blocks>>
    /\ UNCHANGED notUncrowdVars

UcFindCrowding ==
    /\ uc_pc = "crowding"
    /\ uc_crowding' = find_crowding_literals(uc_naive, uc_step.target,
                                             uc_step.premises, uc_step.pivots)
    /\ uc_pc' = "contractions"
    /\ UNCHANGED <<uc_step, uc_naive, uc_events, uc_found, uc_contractions,
                   uc_loop, uc_blocks>>
    /\ UNCHANGED notUncrowdVars

\* find_needed_contractions on one of the vectors the sort may leave, then
\* the push of the number of premises when the last cut is not there.
UcFindContractions ==
    /\ uc_pc = "contractions"
    /\ \E events \in SortedEvents(EventsOf(uc_crowding)) :
          LET contractions == find_needed_contractions(events)
              n == Len(uc_step.premises)
          IN /\ uc_events' = events
             /\ uc_found' = contractions
             /\ uc_contractions' =
                    IF contractions = <<>> \/ contractions[Len(contractions)] # n
                    THEN Append(contractions, n)
                    ELSE contractions
    /\ uc_loop' = [NoLoop EXCEPT !.pivots = uc_step.pivots]
    /\ uc_pc' = "blocks"
    /\ UNCHANGED <<uc_step, uc_naive, uc_crowding, uc_blocks>>
    /\ UNCHANGED notUncrowdVars

\* One iteration of `for cut in contractions`.
UcBlock ==
    /\ uc_pc = "blocks"
    /\ uc_loop.next <= Len(uc_contractions)
    /\ LET cut == uc_contractions[uc_loop.next]
           previous_cut == uc_loop.previous_cut
           slice_ok == previous_cut <= cut /\ cut <= Len(uc_step.premises)
           premise_nodes ==
               uc_loop.previous_node \o
               [k \in 1..(cut - previous_cut) |-> <<"premise", previous_cut + k - 1>>]
           clauses ==
               uc_loop.previous_clause \o
               SubSeq(uc_step.premises, previous_cut + 1, cut)
           taken == Min({Len(premise_nodes) - 1, Len(uc_loop.pivots)})
           pivots == SubSeq(uc_loop.pivots, 1, taken)
           r == add_partial_resolution_step(uc_step.id, uc_loop.ids, uc_step.depth,
                                            premise_nodes, clauses, pivots)
       IN IF ~slice_ok \/ Len(premise_nodes) = 0 \/ ~r.ok
          THEN /\ uc_pc' = "panicked"
               /\ UNCHANGED <<uc_loop, uc_blocks>>
          ELSE /\ uc_pc' = "blocks"
               /\ uc_blocks' = Append(uc_blocks,
                                      [cut |-> cut, pivots |-> pivots,
                                       clauses |-> clauses, node |-> r.node])
               /\ uc_loop' = [previous_cut |-> cut,
                              previous_node |-> <<r.node>>,
                              previous_clause |-> <<r.clause>>,
                              pivots |-> SubSeq(uc_loop.pivots, taken + 1,
                                                Len(uc_loop.pivots)),
                              ids |-> uc_loop.ids + 2,
                              next |-> uc_loop.next + 1]
    /\ UNCHANGED <<uc_step, uc_naive, uc_crowding, uc_events, uc_found,
                   uc_contractions>>
    /\ UNCHANGED notUncrowdVars

\* Ok(previous_node.unwrap()) after the last cut.
UcReturn ==
    /\ uc_pc = "blocks"
    /\ uc_loop.next > Len(uc_contractions)
    /\ uc_pc' = IF uc_loop.previous_node = <<>> THEN "panicked" ELSE "done"
    /\ UNCHANGED <<uc_step, uc_naive, uc_crowding, uc_events, uc_found,
                   uc_contractions, uc_loop, uc_blocks>>
    /\ UNCHANGED notUncrowdVars

\* The clauses the premises of the steps of the model are drawn from, over
\* the atoms L = Var(1), a = Var(2) and b = Var(3).
UcClauses ==
    LET L == <<0, Var(1)>>
        a == <<0, Var(2)>>
        b == <<0, Var(3)>>
    IN {<<L, L>>, <<L, L, a>>, <<L, a>>, <<L, L, L>>,
        <<Negated(a), L>>, <<Negated(L), a>>, <<Negated(L), b>>,
        <<Negated(a), b>>}

UcPivots == {<<<<0, Var(k)>>, polarity>> : k \in 1..NumTerms, polarity \in BOOLEAN}

\* The chains of n premises with their pivots on which the naive resolution
\* of the whole step succeeds, each with the clause it resolves to.
RECURSIVE UcChains(_)
UcChains(n) ==
    IF n = 1
    THEN {[premises |-> <<c>>, pivots |-> <<>>, clause |-> c] : c \in UcClauses}
    ELSE UNION {{[premises |-> Append(ch.premises, c),
                  pivots |-> Append(ch.pivots, p),
                  clause |-> PushAllButFirst(RemoveFirst(ch.clause, PivotInCurrent(p)),
                                             c, PivotInNext(p), FALSE)] :
                    p \in {x \in UcPivots : /\ Contains(ch.clause, PivotInCurrent(x))
                                            /\ Contains(c, PivotInNext(x))}} :
                ch \in UcChains(n - 1), c \in UcClauses}

UcSteps ==
    UNION {{[id |-> "t1", depth |-> 0, premises |-> ch.premises,
             pivots |-> ch.pivots, target |-> target] :
              target \in SUBSET {ch.clause[k] : k \in 1..Len(ch.clause)}} :
           ch \in UNION {UcChains(n) : n \in 2..MaxUcPremises}}

(***************************************************************************)
(* The specifications: each runs one part of the program and leaves the    *)
(* state of the others at rest.                                            *)
(***************************************************************************)
TransIdle == trans_step = NoNode /\ trans_result = NoResult

BinIdle ==
    /\ bin_proof = <<>>
    /\ bin_pos = 0
    /\ elab = NewElaborator
    /\ bin_result = <<>>

MutIdle ==
    /\ mut_graph = <<>>
    /\ mut_root = 0
    /\ mut_rewrite = "noop"
    /\ todo = <<>>
    /\ cache = <<>>
    /\ did_outbound = {}
    /\ outbound_premises_stack = <<>>
    /\ mut_calls = <<>>
    /\ mut_rebuilt = <<>>
    /\ mut_outcome = [kind |-> "idle", value |-> <<>>]

StepIdle ==
    /\ se_inner = <<>>
    /\ se_active = FALSE
    /\ se_root_id = ""
    /\ se_stack = <<>>
    /\ se_returned = <<>>
    /\ se_calls = <<>>
    /\ se_closed = <<>>

PoolIdle ==
    /\ pool_terms = <<>>
    /\ pool_adds = <<>>

ParseIdle ==
    /\ pa_stack = <<>>
    /\ pa_ids = <<>>
    /\ pa_ends = <<>>
    /\ pa_count = 0

LexIdle ==
    /\ lex_chars = <<>>
    /\ lex_results = <<>>
    /\ lex_state = "idle"
    /\ lex_checked = FALSE

BenchIdle ==
    /\ bm_config = <<>>
    /\ bm_queue = <<>>
    /\ bm_main = "idle"
    /\ bm_workers = <<>>
    /\ bm_ran = <<>>
    /\ bm_measured = <<>>

UncrowdIdle ==
    /\ uc_step = <<>>
    /\ uc_pc = "idle"
    /\ uc_naive = <<>>
    /\ uc_crowding = <<>>
    /\ uc_events = <<>>
    /\ uc_found = <<>>
    /\ uc_contractions = <<>>
    /\ uc_loop = <<>>
    /\ uc_blocks = <<>>

InitTrans ==
    /\ trans_step \in TransSteps
    /\ trans_result = NoResult
    /\ bin_proof = <<>>
    /\ bin_pos = 0
    /\ elab = NewElaborator
    /\ bin_result = <<>>
    /\ mut_graph = <<>>
    /\ mut_root = 0
    /\ mut_rewrite = "noop"
    /\ todo = <<>>
    /\ cache = <<>>
    /\ did_outbound = {}
    /\ outbound_premises_stack = <<>>
    /\ mut_calls = <<>>
    /\ mut_rebuilt = <<>>
    /\ mut_outcome = [kind |-> "idle", value |-> <<>>]
    /\ StepIdle
    /\ PoolIdle
    /\ ParseIdle
    /\ LexIdle
    /\ BenchIdle
    /\ UncrowdIdle

NextTrans == TransCall

SpecTrans == InitTrans /\ [][NextTrans]_vars

InitBin ==
    /\ trans_step = NoNode
    /\ trans_result = NoResult
    /\ bin_proof \in BinProofs
    /\ bin_pos = 0
    /\ elab = NewElaborator
    /\ bin_result = <<>>
    /\ mut_graph = <<>>
    /\ mut_root = 0
    /\ mut_rewrite = "noop"
    /\ todo = <<>>
    /\ cache = <<>>
    /\ did_outbound = {}
    /\ outbound_premises_stack = <<>>
    /\ mut_calls = <<>>
    /\ mut_rebuilt = <<>>
    /\ mut_outcome = [kind |-> "idle", value |-> <<>>]
    /\ StepIdle
    /\ PoolIdle
    /\ ParseIdle
    /\ LexIdle
    /\ BenchIdle
    /\ UncrowdIdle

NextBin == BinExpand \/ BinUnchanged \/ BinApplyDiff

SpecBin == InitBin /\ [][NextBin]_vars

InitMut ==
    /\ trans_step = NoNode
    /\ trans_result = NoResult
    /\ bin_proof = <<>>
    /\ bin_pos = 0
    /\ elab = NewElaborator
    /\ bin_result = <<>>
    /\ mut_graph \in MutGraphs
    /\ mut_root = Len(mut_graph)
    /\ mut_rewrite \in {"noop", "elaborate"}
    /\ todo = <<<<mut_root, FALSE>>>>
    /\ cache = <<>>
    /\ did_outbound = {}
    /\ outbound_premises_stack = <<<<>>>>
    /\ mut_calls = [n \in 1..Len(mut_graph) |-> 0]
    /\ mut_rebuilt = <<>>
    /\ mut_outcome = Running
    /\ StepIdle
    /\ PoolIdle
    /\ ParseIdle
    /\ LexIdle
    /\ BenchIdle
    /\ UncrowdIdle

NextMut ==
    \/ MutSkip
    \/ MutAssume
    \/ MutStepExpand
    \/ MutStepRebuild
    \/ MutSubproofOutbound
    \/ MutSubproofOpen
    \/ MutSubproofClose
    \/ MutReturn

SpecMut == InitMut /\ [][NextMut]_vars

\* mutate runs its loop as long as the work list holds an entry.
InitMutLive ==
    /\ trans_step = NoNode
    /\ trans_result = NoResult
    /\ bin_proof = <<>>
    /\ bin_pos = 0
    /\ elab = NewElaborator
    /\ bin_result = <<>>
    /\ mut_graph \in MutGraphsLive
    /\ mut_root = Len(mut_graph)
    /\ mut_rewrite \in {"noop", "elaborate"}
    /\ todo = <<<<mut_root, FALSE>>>>
    /\ cache = <<>>
    /\ did_outbound = {}
    /\ outbound_premises_stack = <<<<>>>>
    /\ mut_calls = [n \in 1..Len(mut_graph) |-> 0]
    /\ mut_rebuilt = <<>>
    /\ mut_outcome = Running
    /\ StepIdle
    /\ PoolIdle
    /\ ParseIdle
    /\ LexIdle
    /\ BenchIdle
    /\ UncrowdIdle

SpecMutLive == InitMutLive /\ [][NextMut]_vars /\ WF_vars(NextMut)

InitStep ==
    /\ TransIdle
    /\ BinIdle
    /\ MutIdle
    /\ se_inner = <<NewFrame>>
    /\ se_active = FALSE
    /\ se_root_id = ""
    /\ se_stack = <<>>
    /\ se_returned = <<>>
    /\ se_calls = <<>>
    /\ se_closed = <<>>
    /\ PoolIdle
    /\ ParseIdle
    /\ LexIdle
    /\ BenchIdle
    /\ UncrowdIdle

NextStep ==
    \/ SeInnerUnchanged
    \/ SeInnerOpenSubproof
    \/ SeInnerCloseSubproof
    \/ SeNew
    \/ SeMapIndex
    \/ SeAddNewCommand
    \/ SeOpenSubproof
    \/ SeCloseSubproof
    \/ SeEnd

SpecStep == InitStep /\ [][NextStep]_vars

\* The StepElaborator alone: the commands it is given and the subproofs it
\* opens and closes, between the commands the Elaborator leaves as they are.
NextStepIds ==
    \/ SeInnerUnchanged
    \/ SeNew
    \/ SeAddNewCommand
    \/ SeOpenSubproof
    \/ SeCloseSubproof
    \/ SeEnd

SpecStepIds == InitStep /\ [][NextStepIds]_vars

InitPool ==
    /\ TransIdle
    /\ BinIdle
    /\ MutIdle
    /\ StepIdle
    /\ pool_terms = NewPool
    /\ pool_adds = <<>>
    /\ ParseIdle
    /\ LexIdle
    /\ BenchIdle
    /\ UncrowdIdle

NextPool == PoolAdd

SpecPool == InitPool /\ [][NextPool]_vars

InitParse ==
    /\ TransIdle
    /\ BinIdle
    /\ MutIdle
    /\ StepIdle
    /\ PoolIdle
    /\ pa_stack = <<<<>>>>
    /\ pa_ids = <<<<>>>>
    /\ pa_ends = <<>>
    /\ pa_count = 0
    /\ LexIdle
    /\ BenchIdle
    /\ UncrowdIdle

NextParse == PaAssume \/ PaStep \/ PaAnchor \/ PaEndStep

SpecParse == InitParse /\ [][NextParse]_vars

InitLex ==
    /\ TransIdle
    /\ BinIdle
    /\ MutIdle
    /\ StepIdle
    /\ PoolIdle
    /\ ParseIdle
    /\ lex_chars \in LexInputs
    /\ lex_results = <<>>
    /\ lex_state = "running"
    /\ lex_checked = TRUE
    /\ BenchIdle
    /\ UncrowdIdle

NextLex == LexNextToken

SpecLex == InitLex /\ [][NextLex]_vars

\* The lexer on one decimal literal, in a build of either kind.
InitLexDecimal ==
    /\ TransIdle
    /\ BinIdle
    /\ MutIdle
    /\ StepIdle
    /\ PoolIdle
    /\ ParseIdle
    /\ lex_chars \in DecimalLiterals
    /\ lex_results = <<>>
    /\ lex_state = "running"
    /\ lex_checked \in BOOLEAN
    /\ BenchIdle
    /\ UncrowdIdle

NextLexDecimal == LexNextToken

SpecLexDecimal == InitLexDecimal /\ [][NextLexDecimal]_vars

InitBench ==
    /\ TransIdle
    /\ BinIdle
    /\ MutIdle
    /\ StepIdle
    /\ PoolIdle
    /\ ParseIdle
    /\ LexIdle
    /\ bm_config \in {c \in BenchConfigs : WellFormedConfig(c)}
    /\ bm_queue = FilledQueue(bm_config)
    /\ bm_main = "spawning"
    /\ bm_workers = [w \in 1..bm_config.num_threads |-> [pc |-> "unspawned", job |-> NoJob]]
    /\ bm_ran = [j \in Jobs(bm_config) |-> <<>>]
    /\ bm_measured = [w \in 1..bm_config.num_threads |-> {}]
    /\ UncrowdIdle

NextBench ==
    \/ BmSpawn
    \/ \E w \in 1..bm_config.num_threads : BmPop(w)
    \/ \E w \in 1..bm_config.num_threads : BmPopNone(w)
    \/ \E w \in 1..bm_config.num_threads : BmRunJobPanic(w)
    \/ \E w \in 1..bm_config.num_threads : BmRunJobOk(w)
    \/ \E w \in 1..bm_config.num_threads : BmRunJobErr(w)
    \/ BmJoin

SpecBench == InitBench /\ [][NextBench]_vars

InitUncrowd ==
    /\ TransIdle
    /\ BinIdle
    /\ MutIdle
    /\ StepIdle
    /\ PoolIdle
    /\ ParseIdle
    /\ LexIdle
    /\ BenchIdle
    /\ uc_step \in UcSteps
    /\ uc_pc = "start"
    /\ uc_naive = <<>>
    /\ uc_crowding = <<>>
    /\ uc_events = <<>>
    /\ uc_found = <<>>
    /\ uc_contractions = <<>>
    /\ uc_loop = NoLoop
    /\ uc_blocks = <<>>

NextUncrowd ==
    \/ UcApplyNaive
    \/ UcFindCrowding
    \/ UcFindContractions
    \/ UcBlock
    \/ UcReturn

SpecUncrowd == InitUncrowd /\ [][NextUncrowd]_vars

(***************************************************************************)
(* Properties of `trans`.                                                  *)
(***************************************************************************)
TransDone == trans_result # NoResult
TransOk == trans_result.kind = "ok"
Goal == MatchEq(trans_step.clause[1])
GivenEqs ==
    [k \in 1..Len(trans_step.premises) |->
        LET m == MatchEq(trans_step.premises[k].clause[1]) IN <<m.t, m.u>>]
Returned == trans_result.node.premises
Range(s) == {s[k] : k \in 1..Len(s)}

\* A returned premise that is not one of the step's own premises is a new step.
IsNew(p) == p \notin Range(trans_step.premises)
\* The premise of the input step that a returned premise stands for.
Origin(p) == IF IsNew(p) THEN p.premises[1] ELSE p
ClausePair(p) == LET m == MatchEq(p.clause[1]) IN <<m.t, m.u>>
\* A returned premise read as an equality: a wrapped premise reads flipped.
ReadEq(p) ==
    IF IsNew(p) THEN <<ClausePair(Origin(p))[2], ClausePair(Origin(p))[1]>>
    ELSE ClausePair(p)

IsChain(es, t, u) ==
    IF es = <<>> THEN t = u
    ELSE /\ es[1][1] = t
         /\ \A k \in 1..(Len(es) - 1) : es[k][2] = es[k + 1][1]
         /\ es[Len(es)][2] = u

\* The terms reachable from t by at most k premise equalities, used in
\* either direction.
RECURSIVE Ball(_, _, _)
Ball(eqs, t, k) ==
    IF k = 0 THEN {t}
    ELSE LET B == Ball(eqs, t, k - 1)
         IN B \cup {eqs[j][2] : j \in {i \in 1..Len(eqs) : eqs[i][1] \in B}}
              \cup {eqs[j][1] : j \in {i \in 1..Len(eqs) : eqs[i][2] \in B}}

HasChain(eqs, t, u) == u \in Ball(eqs, t, Len(eqs))
ShortestChain(eqs, t, u) == Min({k \in 0..Len(eqs) : u \in Ball(eqs, t, k)})

\* C1: when `trans` returns Ok, the returned premises, read in order (a
\* symm-wrapped premise read flipped), chain from t to u; the list is empty
\* only when t and u are the same term.
C1_ReturnedPremisesChain ==
    TransOk =>
        IsChain([k \in 1..Len(Returned) |-> ReadEq(Returned[k])], Goal.t, Goal.u)

\* A reordered chain with a flipped link has been returned.
C1_Witness ==
    /\ TransOk
    /\ Len(Returned) = 3
    /\ \E k \in 1..3 : IsNew(Returned[k])
    /\ Origin(Returned[1]) # trans_step.premises[1]

\* C2 (as claimed): whenever the premises contain a chain from t to u,
\* `trans` returns Ok.
C2_ChainAlwaysFound ==
    (TransDone /\ HasChain(GivenEqs, Goal.t, Goal.u)) => TransOk

RECURSIVE Current(_)
Current(k) ==
    IF k = 1 THEN Goal.t
    ELSE LET e == ClausePair(Origin(Returned[k - 1]))
         IN IF e[1] = Current(k - 1) THEN e[2] ELSE e[1]

UsedRightToLeft(k) ==
    LET e == ClausePair(Origin(Returned[k]))
    IN e[1] # Current(k) /\ e[2] = Current(k)

\* C9: a returned premise is a new step exactly when its equality was used
\* right to left; the new step is `symm`, named <premise id>.symm, concludes
\* the flipped equality and has the original premise as its only premise;
\* the other premises are the same nodes, and the step's id, clause, rule,
\* args and discharge are unchanged.
C9_SymmExactlyWhenFlipped ==
    TransOk =>
        /\ \A k \in 1..Len(Returned) :
            LET p == Returned[k]
                o == Origin(p)
            IN /\ o \in Range(trans_step.premises)
               /\ IsNew(p) <=> UsedRightToLeft(k)
               /\ IsNew(p) =>
                    /\ p.kind = "step"
                    /\ p.rule = "symm"
                    /\ p.id = IdDot(o.id, "symm")
                    /\ p.clause = <<Eq(ClausePair(o)[2], ClausePair(o)[1])>>
                    /\ p.premises = <<o>>
        /\ trans_result.node = [trans_step EXCEPT !.premises = Returned]

\* A returned chain with a kept premise after a flipped one.
C9_Witness ==
    /\ TransOk
    /\ Len(Returned) >= 2
    /\ IsNew(Returned[1])
    /\ ~IsNew(Returned[2])
    /\ ClausePair(Origin(Returned[1]))[1] # ClausePair(Origin(Returned[1]))[2]

\* The chain search as the specification words it, over the positions of
\* the given premises: `order` is the working list, its first i positions
\* consumed; the smallest position not consumed whose equality has t on a
\* side is taken and swapped to position i + 1.
RECURSIVE ChainSearch(_, _, _, _)
ChainSearch(t, u, order, i) ==
    IF t = u THEN [ok |-> TRUE, taken |-> [pos \in 1..i |-> order[pos]]]
    ELSE LET candidates ==
                 {j \in (i + 1)..Len(order) :
                     GivenEqs[order[j]][1] = t \/ GivenEqs[order[j]][2] = t}
         IN IF candidates = {} THEN [ok |-> FALSE, t |-> t, u |-> u]
            ELSE LET j == CHOOSE x \in candidates : \A y \in candidates : x <= y
                     e == GivenEqs[order[j]]
                 IN ChainSearch(IF e[1] = t THEN e[2] ELSE e[1], u,
                                [pos \in 1..Len(order) |->
                                    IF pos = i + 1 THEN order[j]
                                    ELSE IF pos = j THEN order[i + 1]
                                    ELSE order[pos]],
                                i + 1)

Searched ==
    ChainSearch(Goal.t, Goal.u, [pos \in 1..Len(trans_step.premises) |-> pos], 0)

\* C22: when the search reaches a term t other than u that no premise not
\* yet consumed has on a side, `trans` fails with
\* BrokenTransitivityChain(t, u) for that t and returns no step; otherwise
\* the premises it returns stand for the leftmost matches, in search order.
C22_BrokenChainOrLeftmostMatch ==
    TransDone =>
        IF Searched.ok
        THEN /\ TransOk
             /\ Len(Returned) = Len(Searched.taken)
             /\ \A n \in 1..Len(Returned) :
                   Origin(Returned[n]) = trans_step.premises[Searched.taken[n]]
        ELSE trans_result =
                 ErrResult(<<"BrokenTransitivityChain", Searched.t, Searched.u>>)

\* The search consumed a premise and then failed at a term other than the
\* one it started from, although two premises had matched the first term.
C22_Witness ==
    /\ TransDone
    /\ ~Searched.ok
    /\ Searched.t # Goal.t
    /\ Len(trans_step.premises) = 3
    /\ Cardinality({k \in 1..3 : Goal.t \in {GivenEqs[k][1], GivenEqs[k][2]}}) >= 2
    /\ trans_result.kind = "err"

(***************************************************************************)
(* Properties of binarify_resolutions.                                     *)
(***************************************************************************)
BinDone == bin_result # <<>>

\* The original commands (0-based) that binarify_resolutions has expanded.
Expanded == {elab.diff[k].index : k \in 1..Len(elab.diff)}
\* The steps emitted for one of them, in emission order.
EmittedFor(r) ==
    elab.diff[CHOOSE k \in 1..Len(elab.diff) : elab.diff[k].index = r].commands
Original(r) == bin_proof[r + 1]
\* Where the k-th step emitted for r lies in the resulting proof (0-based).
PlaceOf(r, k) == elab.new_indices[r + 1][2] - Len(EmittedFor(r)) + k

\* A premise of the command at place `at` of the resulting proof designates
\* the command named id, which precedes it.
Designates(premise, at, id) ==
    /\ premise[1] = 0
    /\ premise[2] < at
    /\ bin_result[premise[2] + 1].id = id

\* C4 (as claimed): an n-ary resolution step, n >= 3, is replaced by exactly
\* n - 1 steps, each a resolution with two premises, the last of which
\* concludes the clause of the original step.
C4_BinaryStepsSameConclusion ==
    BinDone =>
        \A r \in Expanded :
            LET seg == EmittedFor(r)
                n == Len(Original(r).premises)
            IN /\ Len(seg) = n - 1
               /\ \A k \in 1..Len(seg) :
                    /\ seg[k].rule = "resolution"
                    /\ Len(seg[k].premises) = 2
                    /\ bin_result[PlaceOf(r, k) + 1] = seg[k]
               /\ seg[Len(seg)].clause = Original(r).clause

\* C5 (as claimed): in the resulting proof every premise of every emitted
\* binary step designates a preceding command and the intended one: the
\* first premise of the first step what premises[0] designated, the first
\* premise of a later step the step emitted just before it, the second
\* premise of step i what premises[i + 1] designated.
C5_PremisesDesignateIntended ==
    BinDone =>
        \A r \in Expanded :
            LET seg == EmittedFor(r)
                given == Original(r).premises
            IN \A k \in 1..Len(seg) :
                /\ Designates(seg[k].premises[1], PlaceOf(r, k),
                              IF k = 1 THEN Original(given[1][2]).id
                              ELSE seg[k - 1].id)
                /\ Designates(seg[k].premises[2], PlaceOf(r, k),
                              Original(given[k + 1][2]).id)

\* C10: the steps emitted for a resolution step R are named R.t1, R.t2, ...
\* in emission order, but for the last, which is named R.
C10_EmittedIds ==
    \A r \in Expanded :
        LET seg == EmittedFor(r)
        IN /\ \A k \in 1..(Len(seg) - 1) :
                seg[k].id = Original(r).id \o ".t" \o ToString(k)
           /\ seg[Len(seg)].id = Original(r).id
           /\ BinDone => \A k \in 1..Len(seg) : bin_result[PlaceOf(r, k) + 1] = seg[k]

\* A step with four premises has been expanded into R.t1, R.t2 and R.
C10_Witness ==
    /\ BinDone
    /\ \E r \in Expanded :
        /\ Len(EmittedFor(r)) = 3
        /\ EmittedFor(r)[2].id = Original(r).id \o ".t2"
        /\ bin_result[PlaceOf(r, 3) + 1].id = Original(r).id

\* C11: applying binarify_resolutions and its diff to the result of a first
\* application changes no command, and the first application is the one the
\* pass has computed.
C11_SecondPassChangesNothing ==
    BinDone =>
        /\ bin_result = Binarified(bin_proof)
        /\ Binarified(bin_result) = bin_result
        /\ binarify_resolutions(NewElaborator, bin_result, 0) = <<>>

\* The first application has expanded two resolution steps, the second of
\* which has the first among its premises, and a second application leaves
\* the resulting proof as it is.
C11_Witness ==
    /\ BinDone
    /\ Len(elab.diff) = 2
    /\ Len(bin_result) >= Len(bin_proof) + 2
    /\ \E k \in 1..Len(bin_proof[7].premises) : bin_proof[7].premises[k] = <<0, 5>>
    /\ Binarified(bin_result) = bin_result

\* A list of literals without the first occurrence of x, the others in order.
WithoutFirst(s, x) ==
    IF ~Contains(s, x) THEN s
    ELSE LET p == CHOOSE q \in 1..Len(s) :
                      s[q] = x /\ \A j \in 1..(q - 1) : s[j] # x
         IN [k \in 1..(Len(s) - 1) |-> IF k < p THEN s[k] ELSE s[k + 1]]

\* The accumulator before the k-th step emitted for r.
AccumulatorBefore(r, k) ==
    IF k = 1 THEN Original(Original(r).premises[1][2]).clause
    ELSE EmittedFor(r)[k - 1].clause

\* C21: the k-th binary step emitted for a resolution step concludes the
\* accumulator without the first occurrence of the pivot's literal on the
\* left, followed by the clause of premise k + 1 without the first occurrence
\* of the opposite literal, every other literal kept in order, and its args
\* are the k-th pivot and polarity.
C21_BinaryStepClause ==
    \A r \in Expanded :
        \A k \in 1..Len(EmittedFor(r)) :
            LET pivot == Original(r).args[2 * k - 1]
                polarity == Original(r).args[2 * k]
                pivot_in_left == IF polarity = <<"true">> THEN pivot ELSE Not(pivot)
                pivot_in_right == IF polarity = <<"true">> THEN Not(pivot) ELSE pivot
                right == Original(Original(r).premises[k + 1][2]).clause
            IN /\ EmittedFor(r)[k].clause =
                      WithoutFirst(AccumulatorBefore(r, k), pivot_in_left)
                          \o WithoutFirst(right, pivot_in_right)
               /\ EmittedFor(r)[k].args = <<pivot, polarity>>

\* A step with four premises was expanded, with both polarities among its
\* pivots, and one of the emitted steps concludes a clause that repeats a
\* literal.
C21_Witness ==
    /\ BinDone
    /\ \E r \in Expanded :
        /\ Len(EmittedFor(r)) = 3
        /\ \E k \in 1..3 : Original(r).args[2 * k] = <<"true">>
        /\ \E k \in 1..3 : Original(r).args[2 * k] = <<"false">>
        /\ \E k \in 1..3 :
              /\ Len(EmittedFor(r)[k].clause) = 2
              /\ EmittedFor(r)[k].clause[1] = EmittedFor(r)[k].clause[2]

(***************************************************************************)
(* Claims about mutate and elaborate, under SpecMut.                       *)
(***************************************************************************)
MutDone == mut_outcome.kind # "running"
MutResult == mut_outcome.value
MutSteps == {n \in DOMAIN mut_rebuilt : mut_graph[n].kind = "step"}

\* A node with the order of every subproof's outbound_premises forgotten:
\* the list is replaced by its length and the set of its elements.
RECURSIVE Unordered(_)
Unordered(node) ==
    IF node.kind = "assume" THEN node
    ELSE IF node.kind = "step"
    THEN [node EXCEPT
            !.premises = [k \in 1..Len(node.premises) |-> Unordered(node.premises[k])],
            !.discharge = [k \in 1..Len(node.discharge) |-> Unordered(node.discharge[k])],
            !.previous_step =
                [k \in 1..Len(node.previous_step) |-> Unordered(node.previous_step[k])]]
    ELSE [node EXCEPT
            !.last_step = Unordered(node.last_step),
            !.outbound_premises =
                <<Len(node.outbound_premises),
                  {Unordered(node.outbound_premises[k]) :
                      k \in 1..Len(node.outbound_premises)}>>]

C7_RewrittenOnceAndShared ==
    /\ \A n \in DOMAIN mut_calls : mut_calls[n] <= 1
    /\ \A n1 \in MutSteps : \A n2 \in MutSteps :
         \A k1 \in 1..Len(mut_graph[n1].premises) :
           \A k2 \in 1..Len(mut_graph[n2].premises) :
             mut_graph[n1].premises[k1] = mut_graph[n2].premises[k2] =>
                 mut_rebuilt[n1].premises[k1] = mut_rebuilt[n2].premises[k2]

\* Elaboration has returned; the step u1 is a premise of both u2 and u3 and the
\* assumption a1 of u1, u3 and the root, each was rewritten once, and the
\* rewrite changed u1.
C7_Witness ==
    /\ Len(mut_graph) = 8
    /\ mut_rewrite = "elaborate"
    /\ mut_outcome.kind = "returned"
    /\ Contains(mut_graph[5].premises, 4)
    /\ Contains(mut_graph[6].premises, 4)
    /\ Contains(mut_graph[4].premises, 1)
    /\ Contains(mut_graph[6].premises, 1)
    /\ Contains(mut_graph[8].premises, 1)
    /\ mut_calls[4] = 1
    /\ mut_calls[1] = 1
    /\ cache[4] # Val(mut_graph, 4)

MutRewriteFailed ==
    \E n \in DOMAIN mut_rebuilt :
        MutateFunc(mut_rewrite, mut_rebuilt[n]).kind = "err"

\* C8: when the rewrite of a node fails, elaboration stops at that node, its
\* caller receives the error as an error value, and no proof is returned.
C8_FailureSurfacedAsError ==
    MutRewriteFailed => mut_outcome.kind = "err"

\* The nodes a node refers to: a step its premises, discharged assumptions
\* and previous step, a subproof its last step.
Uses(node) ==
    IF node.kind = "assume" THEN {}
    ELSE IF node.kind = "step"
    THEN {(node.premises \o node.discharge \o node.previous_step)[k] :
             k \in 1..(Len(node.premises) + Len(node.discharge)
                       + Len(node.previous_step))}
    ELSE {node.last_step}

\* The nodes of the subproof whose steps lie at depth d, reached from node.
RECURSIVE InsideSubproof(_, _)
InsideSubproof(d, node) ==
    IF NodeDepth(node) < d THEN {}
    ELSE {node} \cup UNION {InsideSubproof(d, c) : c \in Uses(node)}

\* The Subproof nodes of a graph.
RECURSIVE SubproofsOf(_)
SubproofsOf(node) ==
    (IF node.kind = "subproof" THEN {node} ELSE {})
    \cup UNION {SubproofsOf(c) : c \in Uses(node)}

\* The premises used inside a subproof that lie at a shallower depth than
\* the steps of the subproof.
UsedFromOutside(sub) ==
    LET d == NodeDepth(sub.last_step)
    IN {q \in UNION {Uses(n) : n \in {m \in InsideSubproof(d, sub.last_step) :
                                          m.kind = "step"}} :
           NodeDepth(q) < d}

\* C18: in the graph that mutate returns, every Subproof node lists as
\* outbound_premises exactly the premises used inside it that lie at a
\* shallower depth than its steps, each once.
C18_OutboundPremisesExact ==
    mut_outcome.kind = "returned" =>
        \A sub \in SubproofsOf(MutResult) :
            /\ {sub.outbound_premises[k] : k \in 1..Len(sub.outbound_premises)}
                   = UsedFromOutside(sub)
            /\ Len(sub.outbound_premises) = Cardinality(UsedFromOutside(sub))


\* The nodes a step of the input graph depends on.
Dependencies(n) ==
    Range(mut_graph[n].premises) \cup Range(mut_graph[n].discharge)
        \cup Range(mut_graph[n].previous_step)
Mutated(nodes) == nodes \subseteq DOMAIN cache
MemoOf(nodes) == [k \in 1..Len(nodes) |-> cache[nodes[k]]]
OnTodo(n) == \E k \in 1..Len(todo) : todo[k][1] = n
MutSubproofs == {n \in 1..Len(mut_graph) : mut_graph[n].kind = "subproof"}

\* C19: a step that was rebuilt and handed to the rewrite has every premise,
\* discharged assumption and previous step in the memo, and was handed over
\* holding their mutated results in the original order; the last step of a
\* subproof is on the work list or rebuilt only when every outbound premise
\* of the subproof is in the memo.
C19_DependenciesMutatedFirst ==
    /\ \A n \in MutSteps :
          /\ Mutated(Dependencies(n))
          /\ mut_rebuilt[n].premises = MemoOf(mut_graph[n].premises)
          /\ mut_rebuilt[n].discharge = MemoOf(mut_graph[n].discharge)
          /\ mut_rebuilt[n].previous_step = MemoOf(mut_graph[n].previous_step)
    /\ \A n \in MutSubproofs :
          (OnTodo(mut_graph[n].last_step) \/ mut_graph[n].last_step \in MutSteps) =>
              Mutated(Range(mut_graph[n].outbound_premises))

\* Under `elaborate` the last step of the subproof, with two premises, a
\* discharged assumption and a previous step, was rebuilt, and the subproof
\* has two outbound premises.
C19_Witness ==
    /\ Len(mut_graph) = 8
    /\ mut_rewrite = "elaborate"
    /\ 6 \in MutSteps
    /\ Len(mut_graph[6].premises) = 2
    /\ mut_graph[6].premises[1] > mut_graph[6].premises[2]
    /\ Len(mut_graph[7].outbound_premises) = 2
    /\ cache[5] # Val(mut_graph, 5)


(***************************************************************************)
(* Claims about StepElaborator, under SpecStep.                            *)
(***************************************************************************)
\* C12: for a fixed reference (d, i), the index that map_index returns never
\* decreases from one call to a later call within the pass of the
\* Elaborator, whatever commands were added in between.
C12_MapIndexNeverDecreases ==
    \A j \in 1..Len(se_calls) : \A k \in j..Len(se_calls) :
        se_calls[j].index = se_calls[k].index =>
            /\ se_calls[k].result[1] = se_calls[j].result[1]
            /\ se_calls[k].result[2] >= se_calls[j].result[2]

\* C20: map_index returns the Elaborator's mapping of (d, i) unchanged when
\* the reference targets a command already emitted at depth d, and adds the
\* number of commands in the expansion accumulator only when the reference
\* is at the current depth and its index lies at or beyond the number of
\* commands already emitted at that depth.
C20_OffsetOnlyBeyondEmitted ==
    \A k \in 1..Len(se_calls) :
        LET c == se_calls[k]
        IN c.result =
             IF c.current /\ c.mapped[2] >= c.emitted
             THEN <<c.mapped[1], c.mapped[2] + c.offset>>
             ELSE c.mapped

(***************************************************************************)
(* Claims about the term pool, under SpecPool.                             *)
(***************************************************************************)
RECURSIVE Subterms(_)
Subterms(term) ==
    IF term[1] = "terminal" THEN {term}
    ELSE {term} \cup Subterms(term[3]) \cup Subterms(term[4])

\* The distinct structural terms added, every subterm counted once.
AddedTerms == UNION {Subterms(pool_adds[k].term) : k \in 1..Len(pool_adds)}
Preseeded == {NewPool[h] : h \in 1..Len(NewPool)}

SameHandleIffEqual ==
    \A j \in 1..Len(pool_adds) : \A k \in 1..Len(pool_adds) :
        pool_adds[j].handle = pool_adds[k].handle
            <=> pool_adds[j].term = pool_adds[k].term

\* C13 (as stated): two additions return the same handle if and only if the
\* added terms are structurally equal, and the pool has as many entries as
\* distinct structural terms were added, subterms included, plus three.
C13_EntriesAreAddedPlusThree ==
    /\ SameHandleIffEqual
    /\ Len(pool_terms) = Cardinality(AddedTerms) + 3

\* C13 (amended): two additions return the same handle if and only if the
\* added terms are structurally equal, and the pool has as many entries as
\* there are distinct structural terms among those added, subterms included,
\* and the three preseeded ones together: an added term that is Bool, true
\* or false is counted once.
C13_EntriesAreAddedAndPreseeded ==
    /\ SameHandleIffEqual
    /\ Len(pool_terms) = Cardinality(AddedTerms \cup Preseeded)
    /\ \A h \in 1..Len(pool_terms) : \A g \in 1..Len(pool_terms) :
         Structure(pool_terms, pool_terms[h]) = Structure(pool_terms, pool_terms[g])
             => h = g

\* The term (+ 1 1) was added twice, after 1, and got one handle; the pool
\* has the three preseeded entries and two more.
C13_Witness ==
    /\ Len(pool_adds) = 3
    /\ pool_adds[1].term = Terminal("1")
    /\ pool_adds[2].term = App("+", Terminal("1"), Terminal("1"))
    /\ pool_adds[3].term = pool_adds[2].term
    /\ pool_adds[3].handle = pool_adds[2].handle
    /\ Len(pool_terms) = 5

(***************************************************************************)
(* Claims about the parser of proof commands, under SpecParse.             *)
(***************************************************************************)
AnchorIds == {"t" \o ToString(n) : n \in 1..MaxParseCommands}

\* Every premise of every step of `commands`, the list of one level whose
\* enclosing levels are `levels` (outermost first) and whose enclosing
\* subproofs lie at the indices `ats` of those: the premise (d, i) names
\* level d, and the command at index i of that level precedes the step (or
\* the subproof that holds it) and bears the id the premise was written as.
RECURSIVE PremisesResolved(_, _, _)
PremisesResolved(levels, ats, commands) ==
    \A j \in 1..Len(commands) :
        LET c == commands[j]
        IN IF c.kind = "subproof"
           THEN PremisesResolved(Append(levels, commands), Append(ats, j - 1),
                                 c.commands)
           ELSE \A k \in 1..Len(c.premises) :
                  LET d == c.premises[k][1]
                      i == c.premises[k][2]
                      level == IF d = Len(levels) THEN commands ELSE levels[d + 1]
                      before == IF d = Len(levels) THEN j - 1 ELSE ats[d + 1]
                  IN /\ d <= Len(levels)
                     /\ i < before
                     /\ CommandId(level[i + 1]) = c.refs[k]

\* Every subproof of the list ends with the step of its anchor, and holds
\* that id nowhere else.
RECURSIVE SubproofsClosedByEndStep(_)
SubproofsClosedByEndStep(commands) ==
    \A j \in 1..Len(commands) :
        LET c == commands[j]
        IN IF c.kind = "subproof"
           THEN /\ c.commands[Len(c.commands)].kind = "step"
                /\ c.commands[Len(c.commands)].id \in AnchorIds
                /\ SubproofsClosedByEndStep(c.commands)
           ELSE c.id \in AnchorIds => j = Len(commands)

\* C14: every premise id of a step is resolved to (depth, index), the level
\* of the subproof that holds the referenced command and its position among
\* the commands of that level; an anchor opens a level whose first command
\* has index 0, the step with the anchor's id is the last command of that
\* level, and the closed subproof takes one index of the enclosing level.
C14_PremisesResolvedToDepthIndex ==
    /\ \A f \in 1..Len(pa_stack) :
         /\ PremisesResolved(SubSeq(pa_stack, 1, f - 1),
                             [k \in 1..(f - 1) |-> Len(pa_stack[k])], pa_stack[f])
         /\ SubproofsClosedByEndStep(pa_stack[f])
         /\ Len(pa_ids[f]) = Len(pa_stack[f])
         /\ \A k \in 1..Len(pa_stack[f]) :
              pa_ids[f][k] = <<CommandId(pa_stack[f][k]), k - 1>>
    /\ Len(pa_ids) = Len(pa_stack)
    /\ Len(pa_ends) = Len(pa_stack) - 1

\* The proof of test_premises_in_subproofs has been parsed: two assumptions
\* and a subproof of three steps, the last of which refers to both
\* assumptions and to both steps before it.
C14_Witness ==
    /\ Len(pa_stack) = 1
    /\ Len(pa_stack[1]) = 3
    /\ pa_stack[1][3].kind = "subproof"
    /\ Len(pa_stack[1][3].commands) = 3
    /\ pa_stack[1][3].commands[2].premises = <<<<0, 0>>, <<0, 1>>, <<1, 0>>>>
    /\ pa_stack[1][3].commands[3].premises = <<<<0, 0>>, <<0, 1>>, <<1, 0>>, <<1, 1>>>>

(***************************************************************************)
(* Claims about the lexer, checked under SpecLex.                          *)
(***************************************************************************)
LexerFailures ==
    {"BackslashInQuotedSymbol", "EofInQuotedSymbol", "EofInString",
     "LeadingZero", "UnexpectedChar"}

\* C15: every call of next_token returns a token or one of the lexer
\* failures; no call stops the program.  The lexer panics on a character
\* that starts no token and on "#x" or "#b" followed by no digit.
C15_EveryCallReturnsTokenOrFailure ==
    \A i \in 1..Len(lex_results) :
        \/ lex_results[i].kind = "ok"
        \/ /\ lex_results[i].kind = "err"
           /\ lex_results[i].error[1] \in LexerFailures

\* The literal at the front of the input: its integer part and what follows.
FrontChars == consume_whitespace(lex_chars)
FrontIntPart ==
    SubSeq(FrontChars, 1, ReadCharsWhile(FrontChars, AsciiDigits))
FrontAfterInt == Drop(FrontChars, Len(FrontIntPart))
LastResult == lex_results[Len(lex_results)]

\* C16: a call of next_token on a literal whose integer part has more than
\* one digit and begins with 0 fails with LeadingZero; on the single digit
\* 0 it returns the numeral 0, or a decimal when a point follows.
C16_LeadingZeroRefusedAndZeroAccepted ==
    [][(LexNextToken /\ FrontIntPart # <<>> /\ Head(FrontIntPart) = "0") =>
        IF Len(FrontIntPart) > 1
        THEN LastResult' =
                 [kind |-> "err", error |-> <<"LeadingZero", Text(FrontIntPart)>>]
        ELSE /\ LastResult'.kind = "ok"
             /\ IF FrontAfterInt # <<>> /\ Head(FrontAfterInt) = "."
                THEN LastResult'.token[1] = "Decimal"
                ELSE LastResult'.token = <<"Numeral", 0>>]_vars

\* The input "0 01": the numeral 0 is returned, then 01 is refused.
C16_Witness ==
    lex_results = <<[kind |-> "ok", token |-> <<"Numeral", 0>>],
                    [kind |-> "err", error |-> <<"LeadingZero", "01">>]>>

(***************************************************************************)
(* Claims about the benchmark runner, checked under SpecBench.             *)
(***************************************************************************)
BenchWorkers == 1..bm_config.num_threads
Holders(job) == {w \in BenchWorkers : bm_workers[w].job = job}
AllWorkersReturned == \A w \in BenchWorkers : bm_workers[w].pc = "returned"

UcCrowdingFound == uc_pc \in {"contractions", "blocks", "done", "panicked"}
UcContractionsFound == uc_pc \in {"blocks", "done", "panicked"} /\ uc_loop # <<>> /\ uc_loop # NoLoop
UcPremisesWith(lit) ==
    {i \in 0..(Len(uc_step.premises) - 1) : Contains(uc_step.premises[i + 1], lit)}
UcHighest(S) == CHOOSE x \in S : \A y \in S : y <= x
UcRemovalsAfter(lit, last_inclusion) ==
    {i + 1 : i \in {j \in 0..(Len(uc_step.pivots) - 1) :
                      /\ PivotInCurrent(uc_step.pivots[j + 1]) = lit
                      /\ j + 1 > last_inclusion}}

\* C23: for each crowding literal, last_inclusion is the highest premise
\* index whose clause contains the literal, and eliminator is the smallest
\* pivot step after last_inclusion at which the literal is the one removed
\* from the accumulator, or absent (0) when there is no such step.
C23_EliminatorIsSmallestLaterPivotStep ==
    UcCrowdingFound =>
        \A lit \in DOMAIN uc_crowding :
            /\ uc_crowding[lit].last_inclusion = UcHighest(UcPremisesWith(lit))
            /\ LET steps == UcRemovalsAfter(lit, uc_crowding[lit].last_inclusion)
               IN uc_crowding[lit].eliminator = IF steps = {} THEN 0 ELSE Min(steps)

\* The cuts of the walk told by index: at each index the eliminations come
\* first, and one of a pending literal makes the cut and empties the set;
\* then the last inclusions of the index join the set.
RECURSIVE CutsFrom(_, _, _, _)
CutsFrom(crowding, index, last, pending) ==
    IF index > last THEN <<>>
    ELSE LET eliminated == {lit \in DOMAIN crowding : crowding[lit].eliminator = index}
             included == {lit \in DOMAIN crowding : crowding[lit].last_inclusion = index}
             cut == eliminated \cap pending # {}
         IN (IF cut THEN <<index>> ELSE <<>>) \o
            CutsFrom(crowding, index + 1, last,
                     (IF cut THEN {} ELSE pending) \cup included)

\* C24: find_needed_contractions returns the cuts of the walk in increasing
\* index with eliminations before last inclusions at equal index, whatever
\* the order the map is enumerated in and the sort leaves equal events in;
\* no cut comes from a literal without an eliminator.
C24_CutsOfTheWalkInAnyMapOrder ==
    UcContractionsFound =>
        /\ uc_found = CutsFrom(uc_crowding, 0, Len(uc_step.premises), {})
        /\ \A k \in 1..Len(uc_found) :
              \E lit \in DOMAIN uc_crowding :
                  /\ uc_crowding[lit].eliminator = uc_found[k]
                  /\ uc_crowding[lit].eliminator > uc_crowding[lit].last_inclusion

\* Two crowding literals, one of them never eliminated, events that the
\* sort may leave in more than one order, and a cut.
C24_Witness ==
    /\ UcContractionsFound
    /\ Cardinality(DOMAIN uc_crowding) = 2
    /\ \E lit \in DOMAIN uc_crowding : uc_crowding[lit].eliminator = 0
    /\ Cardinality(SortedEvents(EventsOf(uc_crowding))) > 1
    /\ uc_events # CHOOSE events \in SortedEvents(EventsOf(uc_crowding)) : TRUE
    /\ uc_found # <<>>

UcBlockPivots ==
    LET RECURSIVE Concat(_)
        Concat(k) == IF k = 0 THEN <<>> ELSE Concat(k - 1) \o uc_blocks[k].pivots
    IN Concat(Len(uc_blocks))

\* C25: the cuts used to segment the premises are strictly increasing, the
\* first is at least 2 and the last is the number of premises n; no
\* assertion of apply_naive_resolution fails in a block, and the blocks
\* together consume the n - 1 pivots in their original order.
C25_CutsSegmentPremisesInBlocksOfTwoOrMore ==
    UcContractionsFound =>
        /\ \A k \in 1..(Len(uc_contractions) - 1) :
              uc_contractions[k] < uc_contractions[k + 1]
        /\ uc_contractions[1] >= 2
        /\ uc_contractions[Len(uc_contractions)] = Len(uc_step.premises)
        /\ uc_pc # "panicked"
        /\ uc_pc = "done" => UcBlockPivots = uc_step.pivots

(***************************************************************************)
(* Claims about the ids StepElaborator gives, under SpecStepIds.           *)
(***************************************************************************)
SeClosing == se_active /\ se_active' /\ Len(se_stack') = Len(se_stack) - 1

\* The id of a command that would be pushed next to the innermost of the
\* frames: the root id and one component per frame, the outermost first.
RECURSIVE IdInFrames(_, _)
IdInFrames(root_id, frames) ==
    IF frames = <<>> THEN root_id
    ELSE IdInFrames(root_id, SubSeq(frames, 1, Len(frames) - 1))
             \o ".t" \o ToString(Len(frames[Len(frames)]) + 1)

\* ProofNode::id of a subproof: the id of its last step.
SubproofId(subproof) == subproof.commands[Len(subproof.commands)].id

\* C26: when close_subproof closes a subproof, the id of its last command
\* becomes the id the subproof has as the next command of the enclosing
\* frame, the root id followed by one .t<position> per enclosing frame; the
\* other commands keep their ids, and the id of the subproof seen from
\* outside is that id.
C26_ClosedSubproofTakesItsIdInTheEnclosingFrame ==
    [][SeClosing =>
          LET commands == se_stack[Len(se_stack)]
              returned == se_returned'.commands
          IN /\ se_returned'.kind = "subproof"
             /\ Len(returned) = Len(commands)
             /\ \A k \in 1..(Len(commands) - 1) : returned[k] = commands[k]
             /\ returned[Len(returned)].kind = "step"
             /\ returned[Len(returned)].id = IdInFrames(se_root_id, se_stack')
             /\ SubproofId(se_returned') = IdInFrames(se_root_id, se_stack')]_vars

\* A subproof of one step, opened after one command of the enclosing frame,
\* was closed: its step went from <root>.t2.t1 to <root>.t2.
C26_Witness ==
    /\ se_active
    /\ Len(se_stack) = 1
    /\ Len(se_stack[1]) = 1
    /\ Len(se_closed) = 1
    /\ se_returned = se_closed[1]
    /\ SubproofId(se_closed[1]) = se_root_id \o ".t2"

SeProduced ==
    LET RECURSIVE Closed(_)
        Closed(k) == IF k = 0 THEN <<>> ELSE Closed(k - 1) \o se_closed[k].commands
    IN se_stack[1] \o Closed(Len(se_closed))

\* C29: after any sequence of add_new_command, open_subproof and
\* close_subproof calls on one StepElaborator that leaves every opened
\* subproof closed, the ids of the commands produced, those of the outermost
\* frame and those of the subproofs returned, are pairwise distinct.
C29_ProducedIdsPairwiseDistinct ==
    (se_active /\ StepDepth(se_stack) = 0) =>
        \A j \in 1..Len(SeProduced) : \A k \in 1..Len(SeProduced) :
            j # k => SeProduced[j].id # SeProduced[k].id

(***************************************************************************)
(* Claims about the assertions and the termination of mutate.              *)
(***************************************************************************)
MutAtSubproofFirstVisit == MutFresh /\ MutInput.kind = "subproof" /\ ~MutIsDone
MutAssertionFailed == mut_outcome.kind = "panicked" /\ mut_outcome.value[1] = "assert"

\* C27: on the well-formed graphs no assertion of mutate fails: whenever a
\* Subproof node is visited before it is done, the number of open frames of
\* outbound premises minus one is the depth of the subproof, and when the
\* work list is empty one frame remains and it is empty.
C27_NoAssertionOfMutateFails ==
    /\ MutAtSubproofFirstVisit =>
          NodeDepth(Val(mut_graph, MutNode)) = Len(outbound_premises_stack) - 1
    /\ (mut_outcome = Running /\ todo = <<>>) => outbound_premises_stack = <<<<>>>>
    /\ ~MutAssertionFailed

\* mutate returned on a subproof nested in a subproof whose only premise
\* from outside, the assumption, is used by the inner subproof, under the
\* closure of elaborate.
C27_Witness ==
    /\ mut_outcome.kind = "returned"
    /\ mut_rewrite = "elaborate"
    /\ Len(mut_graph) = 6
    /\ mut_graph[2].depth = 2
    /\ mut_graph[4].premises = <<3>>
    /\ mut_graph[5].outbound_premises = <<1>>
    /\ cache[5].outbound_premises = <<cache[1]>>

\* C28: on every graph of the model, finite and acyclic, the work-list loop
\* of mutate ends unless the rewrite fails to return, and when it ends the
\* memo holds a mutated node for the root, which is what mutate returns.
C28_MutateTerminatesWithTheMutatedRoot ==
    <>(\/ /\ mut_outcome.kind = "returned"
          /\ todo = <<>>
          /\ mut_root \in DOMAIN cache
          /\ mut_outcome.value = cache[mut_root]
       \/ MutRewriteFailed)

\* mutate returned the mutated root of a graph with a subproof nested in a
\* subproof, after the closure of elaborate rewrote the trans step of the
\* inner one.
C28_Witness ==
    /\ mut_outcome.kind = "returned"
    /\ mut_rewrite = "elaborate"
    /\ Len(mut_graph) = 6
    /\ mut_graph[2].depth = 2
    /\ mut_graph[2].rule = "trans"
    /\ DOMAIN cache = 1..6
    /\ cache[2] # Val(mut_graph, 2)
    /\ mut_outcome.value = cache[mut_root]

\* The decimal literal at the front of the input: the digits after its point.
FrontIsDecimal == FrontAfterInt # <<>> /\ Head(FrontAfterInt) = "."
FrontFracPart ==
    SubSeq(Tail(FrontAfterInt), 1, ReadCharsWhile(Tail(FrontAfterInt), AsciiDigits))
FrontDigits == FrontIntPart \o FrontFracPart

\* Whether the pair is the quotient of numer by denom in lowest terms.
IsLowestTerms(pair, numer, denom) ==
    /\ pair[2] > 0
    /\ denom % pair[2] = 0
    /\ numer % (denom \div pair[2]) = 0
    /\ pair[1] = numer \div (denom \div pair[2])
    /\ Gcd(pair[1], pair[2]) = 1

\* C30: a call of next_token on a decimal literal I.F, whatever the
\* lengths of I and F, returns a Decimal token whose value is the integer
\* written by the digits of I and of F over 10^len(F) in lowest terms, and
\* neither the numerator nor the power of ten overflows or aborts.
C30_EveryDecimalLiteralGivesItsExactQuotient ==
    [][(/\ lex_state = "running"
        /\ lex_results' # lex_results
        /\ FrontIntPart # <<>>
        /\ ~HasLeadingZero(FrontIntPart)
        /\ FrontIsDecimal)
       => /\ LastResult'.kind = "ok"
          /\ LastResult'.token[1] = "Decimal"
          /\ Len(LastResult'.token[2]) = 2
          /\ Len(FrontDigits) <= MaxExactDigits
                => IsLowestTerms(LastResult'.token[2],
                                 FromStrRadix(FrontDigits, 10, 0),
                                 Pow(10, Len(FrontFracPart)))]_vars

====
